---- MODULE Spec2Model ----
(***************************************************************************)
(* Model of serial_com_rust: the ring buffer (arraydeque, Wrapping), the   *)
(* COBS byte stuffer (cobs.rs), the CRC-16/DNP checksum unit (crc.rs), the *)
(* unversioned frame codec (binarycom/mod.rs), the versioned frame codec   *)
(* (binarycom.rs) and the host receiver loop (binarycom/hostreceiver.rs).  *)
(*                                                                         *)
(* A ring buffer is a record [xs, head]: xs is the logical content, front  *)
(* first, and head is the physical index of the front element, so that     *)
(* as_slices can return the two physical slices the code works on.         *)
(*                                                                         *)
(* Every call returns a record with a status: "Ok", the name of a          *)
(* SerialComError variant, or "Panic" when the call aborts the thread      *)
(* (arithmetic overflow in a build with overflow checks, an out-of-range   *)
(* slice or index in every build).                                         *)
(***************************************************************************)
EXTENDS Integers, Sequences, FiniteSets, TLC

VARIABLES
    cap,              \* capacity of the ring buffers of this run: 8, 16, 32, 64 or 128
    versioned,        \* TRUE: codec of binarycom.rs, FALSE: codec of binarycom/mod.rs
    overflow_checks,  \* TRUE: debug profile (overflow panics), FALSE: release (wraps)
    outbuf,           \* the sender's ring buffer
    tx,               \* the last send_message call: its arguments and its result
    wire,             \* bytes written to the line and not yet read by the receiver
    frames,           \* history: the frames put on the line, in order
    inbuf,            \* the receiver's ring buffer
    ingested,         \* number of bytes the receiver has read from the line
    rx,               \* the last receive_message call: result and output variables
    alive,            \* the receiver thread has not panicked
    log,              \* history: the outcome of each receive_message call, in order
    q,                \* a ring buffer the byte stuffer is applied to directly
    q_orig,           \* q.clone() taken before the byte stuffer was applied
    q_call,           \* the last byte stuffer call on q: operation, status, return value
    vec,              \* a Vec<u8> the byte stuffer is applied to directly
    vec_orig,         \* vec.clone() taken before the byte stuffer was applied
    vec_call,         \* the last byte stuffer call on vec: operation, status, return value
    rx_reg_read,      \* channel of register-read responses: sequence of <<reg_num, reg_val>>
    rx_reg_write,     \* channel of register-write acknowledgements: sequence of reg_num
    rx_stream,        \* channel of streaming data: sequence of <<command, data>>
    routed,           \* the last message_router call: its arguments and its result
    stream_alive,     \* the stream thread has not panicked (it owns the receiving end of rx_stream)
    stream_last,      \* the last unpack_stream call of the stream thread
    regbitwidth,      \* "Eight" or "ThirtyTwo": register width of the client
    call,             \* the register call of the client: operation, arguments, position, result
    serial_out,       \* bytes the client has written to serial_outfile
    pushed,           \* history: the bytes each push_back_rand call has pushed into q
    pack_call         \* the last call of a pack or unpack function: arguments and result

codecvars == <<cap, versioned, overflow_checks, outbuf, tx, wire, frames, inbuf,
               ingested, rx, alive, log>>

vecvars == <<vec, vec_orig, vec_call>>

cobsvars == <<q, q_orig, q_call, vecvars>>

queuevars == <<rx_reg_read, rx_reg_write, rx_stream, routed>>

streamvars == <<stream_alive, stream_last>>

appvars == <<regbitwidth, call, serial_out>>

unitvars == <<pushed, pack_call>>

vars == <<codecvars, cobsvars, queuevars, streamvars, appvars, unitvars>>

-----------------------------------------------------------------------------
(* Bounds of the model *)

\* payloads are all sequences over DataBytes up to this length, plus the
\* payloads at the capacity boundary
MaxData == 2

\* number of frames put on the line in one run of the receiver
MaxFrames == 2

\* number of receive_message calls in one run of the receiver
MaxReceives == 3

\* number of raw bytes a run of the decoder reads from a noisy line
MaxNoise == 5

\* number of messages handed to message_router in one run of the router
MaxRoutes == 2

\* number of routed entries the device lets pile up in the register queues
\* before it sends more
MaxQueued == 2

\* calls of push_back_rand on one buffer
MaxPushes == 3

-----------------------------------------------------------------------------
(* Bytes and machine integers *)

\* usize arithmetic wraps modulo 2^64 in a release build.  The model wraps
\* modulo 2^30: every other quantity of the code is below 2^8, so each
\* comparison the code makes has the same outcome.
UsizeModulus == 2^30

Min(a, b) == IF a < b THEN a ELSE b

\* a - b on usize: [panic, v]
usize_sub(a, b, checks) ==
    IF a >= b THEN [panic |-> FALSE, v |-> a - b]
    ELSE IF checks THEN [panic |-> TRUE, v |-> 0]
    ELSE [panic |-> FALSE, v |-> a - b + UsizeModulus]

RECURSIVE BitXor(_, _, _)
\* bitwise exclusive or of the low n bits of a and b
BitXor(a, b, n) ==
    IF n = 0 THEN 0
    ELSE (((a % 2) + (b % 2)) % 2) + 2 * BitXor(a \div 2, b \div 2, n - 1)

RECURSIVE BitAnd(_, _, _)
\* bitwise and of the low n bits of a and b
BitAnd(a, b, n) ==
    IF n = 0 THEN 0
    ELSE ((a % 2) * (b % 2)) + 2 * BitAnd(a \div 2, b \div 2, n - 1)

-----------------------------------------------------------------------------
(* Ring buffer: arraydeque::ArrayDeque<[u8; cap], Wrapping> *)

EmptyBuf == [xs |-> <<>>, head |-> 0]

len(buf) == Len(buf.xs)

is_full(buf, c) == Len(buf.xs) = c

clear(buf) == EmptyBuf

\* Wrapping: pushing at the back of a full buffer drops the front element
push_back(buf, b, c) ==
    IF Len(buf.xs) = c
    THEN [xs |-> Append(Tail(buf.xs), b), head |-> (buf.head + 1) % c]
    ELSE [xs |-> Append(buf.xs, b), head |-> buf.head]

\* Wrapping: pushing at the front of a full buffer drops the back element
push_front(buf, b, c) ==
    IF Len(buf.xs) = c
    THEN [xs |-> <<b>> \o SubSeq(buf.xs, 1, c - 1), head |-> (buf.head + c - 1) % c]
    ELSE [xs |-> <<b>> \o buf.xs, head |-> (buf.head + c - 1) % c]

\* only called on a non-empty buffer; the caller handles None
pop_front(buf, c) == [xs |-> Tail(buf.xs), head |-> (buf.head + 1) % c]

\* only called on a non-empty buffer
pop_back(buf) == [xs |-> SubSeq(buf.xs, 1, Len(buf.xs) - 1), head |-> buf.head]

RECURSIVE extend_back(_, _, _)
\* for el in bytes { self.push_back(*el) }: the pushes in order, the
\* sequence split in halves to keep the evaluation shallow
extend_back(buf, bytes, c) ==
    IF Len(bytes) = 0 THEN buf
    ELSE IF Len(bytes) = 1 THEN push_back(buf, bytes[1], c)
    ELSE LET h == Len(bytes) \div 2
             first == extend_back(buf, SubSeq(bytes, 1, h), c)
         IN  IF Len(first.xs) >= 0
             THEN extend_back(first, SubSeq(bytes, h + 1, Len(bytes)), c)
             ELSE buf

\* the two physical slices, in logical order
as_slices(buf, c) ==
    LET n1 == Min(Len(buf.xs), c - buf.head)
    IN  <<SubSeq(buf.xs, 1, n1), SubSeq(buf.xs, n1 + 1, Len(buf.xs))>>

-----------------------------------------------------------------------------
(* Checksum unit: crc_any's CRC::crc16dnp() and crc.rs *)

\* CRC-16/DNP: polynomial 0x3D65 reflected (0xA6BC), initial value 0,
\* final xor 0xFFFF
CrcPolyReflected == 42684

CrcFinalXor == 65535

RECURSIVE crc_shift(_, _)
\* n steps of the reflected shift register
crc_shift(crc, n) ==
    IF n = 0 THEN crc
    ELSE crc_shift(IF crc % 2 = 1
                   THEN BitXor(crc \div 2, CrcPolyReflected, 16)
                   ELSE crc \div 2, n - 1)

\* the register after a byte, for each value of its low byte xor the byte
CrcTable == [i \in 0..255 |-> crc_shift(i, 8)] @@ <<>>

\* one byte through the table-driven register update
crc_update(crc, b) ==
    LET t == CrcTable[BitXor(crc % 256, b, 8)]
    IN  (t \div 256) * 256 + BitXor(t % 256, crc \div 256, 8)

RECURSIVE crc_digest(_, _)
\* CRC::digest: feed bytes, in order, into the register value crc (the
\* sequence split in halves to keep the evaluation shallow)
crc_digest(crc, bytes) ==
    IF Len(bytes) = 0 THEN crc
    ELSE IF Len(bytes) = 1 THEN crc_update(crc, bytes[1])
    ELSE LET h == Len(bytes) \div 2
             first == crc_digest(crc, SubSeq(bytes, 1, h))
         IN  IF first >= 0
             THEN crc_digest(first, SubSeq(bytes, h + 1, Len(bytes)))
             ELSE 0

\* CRC::get_crc
crc_get(crc) == BitXor(crc, CrcFinalXor, 16)

\* crc of a plain byte sequence
crc16dnp(bytes) == crc_get(crc_digest(0, bytes))

\* a checksum that always digests the whole first slice
compute_crc_whole_slice(buf, msg_len, c) ==
    LET slices == as_slices(buf, c)
        slice1 == slices[1]
        slice2 == slices[2]
        slice1_len == Len(slice1)
    IN  IF msg_len <= slice1_len
        THEN [status |-> "Ok", crc |-> crc_get(crc_digest(0, slice1))]
        ELSE IF msg_len - slice1_len > Len(slice2)
        THEN [status |-> "Panic", crc |-> 0]
        ELSE [status |-> "Ok",
              crc |-> crc_get(crc_digest(crc_digest(0, slice1),
                                         SubSeq(slice2, 1, msg_len - slice1_len)))]

\* CRCExt::compute_crc: the CRC of the first msg_len bytes, digested slice
\* by slice.  slice2[0..(msg_len - slice1_len)] is out of range, and the
\* call panics, when msg_len exceeds the buffer length.
compute_crc(buf, msg_len, c) ==
    LET slices == as_slices(buf, c)
        slice1 == slices[1]
        slice2 == slices[2]
        slice1_len == Len(slice1)
    IN  IF msg_len <= slice1_len
        THEN [status |-> "Ok",
              crc |-> crc_get(crc_digest(0, SubSeq(slice1, 1, msg_len)))]
        ELSE IF msg_len - slice1_len > Len(slice2)
        THEN [status |-> "Panic", crc |-> 0]
        ELSE [status |-> "Ok",
              crc |-> crc_get(crc_digest(crc_digest(0, slice1),
                                         SubSeq(slice2, 1, msg_len - slice1_len)))]

\* CRCExt::compute_crc_bytes: (crc >> 8 & 0xFF, crc & 0xFF)
compute_crc_bytes(buf, msg_len, c) ==
    LET r == compute_crc(buf, msg_len, c)
    IN  [status |-> r.status, high |-> (r.crc \div 256) % 256, low |-> r.crc % 256]

-----------------------------------------------------------------------------
(* Byte stuffer: COBSExt for ArrayDeque<[u8; cap], Wrapping> (cobs.rs) *)

\* an iteration that never writes a distance
cobs_encode_step_unlinked(st, i) ==
    IF st.xs[i + 1] = 0 THEN [st EXCEPT !.i_last_zero = i] ELSE st

\* one iteration of the loop of cobs_encode: a zero at i makes the previous
\* zero point to it.  xs is 1-based here, i and i_last_zero are the code's
\* 0-based indices.
cobs_encode_step(st, i) ==
    IF st.status # "Ok" THEN st
    ELSE IF st.xs[i + 1] = 0
    THEN IF i - st.i_last_zero > 255
         THEN [st EXCEPT !.status = "TryFromInt"]
         ELSE [status |-> "Ok",
               xs |-> [st.xs EXCEPT ![st.i_last_zero + 1] = i - st.i_last_zero],
               i_last_zero |-> i]
    ELSE st

RECURSIVE cobs_encode_range(_, _, _)
\* the iterations i = lo .. hi-1 in order, the range split in halves to
\* keep the evaluation shallow
cobs_encode_range(st, lo, hi) ==
    IF lo >= hi THEN st
    ELSE IF hi - lo = 1 THEN cobs_encode_step(st, lo)
    ELSE LET mid == (lo + hi) \div 2
             first == cobs_encode_range(st, lo, mid)
         IN  IF first.i_last_zero >= 0
             THEN cobs_encode_range(first, mid, hi)
             ELSE st

\* for i in 1..qlen, started at i with the last zero at i_last_zero
cobs_encode_loop(xs, i, i_last_zero) ==
    LET st == cobs_encode_range([status |-> "Ok", xs |-> xs,
                                 i_last_zero |-> i_last_zero], i, Len(xs))
    IN  [status |-> st.status, xs |-> st.xs]

cobs_encode(buf, c) ==
    IF len(buf) = 0 THEN [status |-> "COBSTooLittleData", ret |-> 0, buf |-> buf]
    ELSE IF is_full(buf, c) THEN [status |-> "QueueTooFull", ret |-> 0, buf |-> buf]
    ELSE LET b1 == push_front(buf, 0, c)
         IN  IF is_full(b1, c)
             THEN [status |-> "QueueTooFull", ret |-> 0, buf |-> b1]
             ELSE LET b2 == push_back(b1, 0, c)
                      w  == cobs_encode_loop(b2.xs, 1, 0)
                      b3 == [b2 EXCEPT !.xs = w.xs]
                  IN  [status |-> w.status,
                       ret |-> IF w.status = "Ok" THEN len(b3) ELSE 0,
                       buf |-> b3]

\* an iteration that follows the chain without zeroing its link
cobs_decode_step_keep_links(st) ==
    IF st.comma_found \/ st.i_zero >= Len(st.xs) THEN st
    ELSE IF st.xs[st.i_zero + 1] = 0 THEN [st EXCEPT !.comma_found = TRUE]
    ELSE [st EXCEPT !.i_zero = st.i_zero + st.xs[st.i_zero + 1]]

\* one iteration of the while loop of cobs_decode: stop at a zero, else
\* jump by the value of the link and zero it; no effect once the loop
\* has ended
cobs_decode_step(st) ==
    IF st.comma_found \/ st.i_zero >= Len(st.xs) THEN st
    ELSE IF st.xs[st.i_zero + 1] = 0 THEN [st EXCEPT !.comma_found = TRUE]
    ELSE [xs |-> [st.xs EXCEPT ![st.i_zero + 1] = 0],
          i_zero |-> st.i_zero + st.xs[st.i_zero + 1],
          comma_found |-> FALSE]

RECURSIVE cobs_decode_steps(_, _)
\* n iterations in order, split in halves to keep the evaluation shallow
cobs_decode_steps(st, n) ==
    IF n <= 0 THEN st
    ELSE IF n = 1 THEN cobs_decode_step(st)
    ELSE LET first == cobs_decode_steps(st, n \div 2)
         IN  IF first.i_zero >= 0
             THEN cobs_decode_steps(first, n - (n \div 2))
             ELSE st

\* while i_zero < q_len: i_zero grows in every iteration, so the loop has
\* ended after Len(xs) iterations
cobs_decode_loop(xs, i_zero) ==
    cobs_decode_steps([xs |-> xs, i_zero |-> i_zero, comma_found |-> FALSE],
                      Len(xs))

\* a decoder that counts the comma in the length it returns
cobs_decode_counts_comma(buf, c, checks) ==
    IF len(buf) < 3 THEN [status |-> "COBSTooLittleData", ret |-> 0, buf |-> buf]
    ELSE LET w  == cobs_decode_loop(buf.xs, 0)
             b1 == [buf EXCEPT !.xs = w.xs]
         IN  IF ~w.comma_found
             THEN [status |-> "COBSDecodeNoCommaFound", ret |-> 0, buf |-> b1]
             ELSE [status |-> "Ok", ret |-> w.i_zero, buf |-> pop_front(b1, c)]

cobs_decode(buf, c, checks) ==
    IF len(buf) < 3 THEN [status |-> "COBSTooLittleData", ret |-> 0, buf |-> buf]
    ELSE LET w  == cobs_decode_loop(buf.xs, 0)
             b1 == [buf EXCEPT !.xs = w.xs]
         IN  IF ~w.comma_found
             THEN [status |-> "COBSDecodeNoCommaFound", ret |-> 0, buf |-> b1]
             ELSE LET b2 == pop_front(b1, c)
                      r  == usize_sub(w.i_zero, 1, checks)
                  IN  IF r.panic
                      THEN [status |-> "Panic", ret |-> 0, buf |-> b2]
                      ELSE [status |-> "Ok", ret |-> r.v, buf |-> b2]

-----------------------------------------------------------------------------
(* Frame codecs *)

RECURSIVE pop_data(_, _, _, _, _)
\* for i in 0..data_size { data[i] = self.pop_front().ok_or(..)? }
\* the pop is evaluated before the index: an empty buffer gives
\* QueueIndexingError, a full destination an out-of-bounds panic
pop_data(buf, data, i, data_size, c) ==
    IF i >= data_size THEN [status |-> "Ok", buf |-> buf, data |-> data]
    ELSE IF len(buf) = 0
    THEN [status |-> "QueueIndexingError", buf |-> buf, data |-> data]
    ELSE IF i >= Len(data)
    THEN [status |-> "Panic", buf |-> pop_front(buf, c), data |-> data]
    ELSE pop_data(pop_front(buf, c), [data EXCEPT ![i + 1] = Head(buf.xs)],
                  i + 1, data_size, c)

\* the result of a call that stops with status st and leaves the caller's
\* output variables as out
Stop(st, buf, out) ==
    [status |-> st, ret |-> 0, buf |-> buf,
     version |-> out.version, command |-> out.command, data |-> out.data]

\* a size check that rejects the largest payload too
payload_too_big_off_by_one(data, c) == Len(data) >= c - 5

\* if data.len() > 16 - 5 (64 - 5)
payload_too_big(data, c) == Len(data) > c - 5

\* a send_message that clears the buffer before it checks the size
send_message_clear_first(buf, command, data, c) ==
    IF payload_too_big(data, c)
    THEN [status |-> "SliceTooBig", ret |-> 0, buf |-> clear(buf)]
    ELSE LET b1  == extend_back(push_back(clear(buf), command, c), data, c)
             crc == compute_crc_bytes(b1, len(b1), c)
             b2  == push_back(push_back(b1, crc.high, c), crc.low, c)
             e   == cobs_encode(b2, c)
         IN  IF crc.status # "Ok" THEN [status |-> crc.status, ret |-> 0, buf |-> b1]
             ELSE IF e.status # "Ok" THEN [status |-> e.status, ret |-> 0, buf |-> e.buf]
             ELSE [status |-> "Ok", ret |-> len(e.buf), buf |-> e.buf]

\* a send_message that does not clear the buffer
send_message_appends(buf, command, data, c) ==
    IF payload_too_big(data, c) THEN [status |-> "SliceTooBig", ret |-> 0, buf |-> buf]
    ELSE LET b1  == extend_back(push_back(buf, command, c), data, c)
             crc == compute_crc_bytes(b1, len(b1), c)
             b2  == push_back(push_back(b1, crc.high, c), crc.low, c)
             e   == cobs_encode(b2, c)
         IN  IF crc.status # "Ok" THEN [status |-> crc.status, ret |-> 0, buf |-> b1]
             ELSE IF e.status # "Ok" THEN [status |-> e.status, ret |-> 0, buf |-> e.buf]
             ELSE [status |-> "Ok", ret |-> len(e.buf), buf |-> e.buf]

\* BinaryCom::send_message of binarycom/mod.rs (no version byte)
send_message(buf, command, data, c) ==
    IF payload_too_big(data, c) THEN [status |-> "SliceTooBig", ret |-> 0, buf |-> buf]
    ELSE LET b1  == extend_back(push_back(clear(buf), command, c), data, c)
             crc == compute_crc_bytes(b1, len(b1), c)
             b2  == push_back(push_back(b1, crc.high, c), crc.low, c)
             e   == cobs_encode(b2, c)
         IN  IF crc.status # "Ok" THEN [status |-> crc.status, ret |-> 0, buf |-> b1]
             ELSE IF e.status # "Ok" THEN [status |-> e.status, ret |-> 0, buf |-> e.buf]
             ELSE [status |-> "Ok", ret |-> len(e.buf), buf |-> e.buf]

\* the received bytes combined with a bitwise and before the comparison
crc_matches_anded(crc, crc_rec_high_byte, crc_rec_low_byte) ==
    crc.high * 256 + crc.low
        = BitAnd((crc_rec_high_byte * 256) % 65536, crc_rec_low_byte, 16)

\* a comparison that forgets the low byte
crc_matches_high_only(crc, crc_rec_high_byte, crc_rec_low_byte) ==
    crc.high = crc_rec_high_byte

\* the comparison of the received checksum bytes with the recomputed ones
crc_matches(crc, crc_rec_high_byte, crc_rec_low_byte) ==
    crc.high = crc_rec_high_byte /\ crc.low = crc_rec_low_byte

\* BinaryCom::receive_message of binarycom/mod.rs (no version byte).
\* out holds the caller's version (unused here), command and data variables.
receive_message(buf, out, c, checks) ==
    IF Len(out.data) < c - 5 THEN Stop("SliceTooSmall", buf, out)
    ELSE
    LET d == cobs_decode(buf, c, checks) IN
    IF d.status # "Ok" THEN Stop(d.status, d.buf, out)
    ELSE
    LET msg_size == usize_sub(d.ret, 2, checks) IN
    IF msg_size.panic THEN Stop("Panic", d.buf, out)
    ELSE
    LET data_size == usize_sub(msg_size.v, 1, checks) IN
    IF data_size.panic THEN Stop("Panic", d.buf, out)
    ELSE
    LET crc == compute_crc_bytes(d.buf, msg_size.v, c) IN
    IF crc.status # "Ok" THEN Stop(crc.status, d.buf, out)
    ELSE IF len(d.buf) = 0 THEN Stop("QueueIndexingError", d.buf, out)
    ELSE
    LET out1 == [out EXCEPT !.command = Head(d.buf.xs)]
        p    == pop_data(pop_front(d.buf, c), out.data, 0, data_size.v, c)
        out2 == [out1 EXCEPT !.data = p.data]
    IN
    IF p.status # "Ok" THEN Stop(p.status, p.buf, out2)
    ELSE IF len(p.buf) = 0 THEN Stop("QueueIndexingError", p.buf, out2)
    ELSE IF len(p.buf) = 1 THEN Stop("QueueIndexingError", pop_front(p.buf, c), out2)
    ELSE
    LET crc_rec_high_byte == p.buf.xs[1]
        crc_rec_low_byte  == p.buf.xs[2]
        b3 == pop_front(pop_front(p.buf, c), c)
    IN
    IF ~crc_matches(crc, crc_rec_high_byte, crc_rec_low_byte)
    THEN Stop("CRCMismatch", b3, out2)
    ELSE [status |-> "Ok", ret |-> data_size.v, buf |-> b3,
          version |-> out2.version, command |-> out2.command, data |-> out2.data]

\* BinaryCom::send_message of binarycom.rs (with version byte); the CRC is
\* digested over both slices of the whole buffer
send_message_versioned(buf, version, command, data, c) ==
    IF Len(data) > c - 6 THEN [status |-> "SliceTooBig", ret |-> 0, buf |-> buf]
    ELSE LET b1 == extend_back(push_back(push_back(clear(buf), version, c),
                                         command, c), data, c)
             slices  == as_slices(b1, c)
             crc_num == crc_get(crc_digest(crc_digest(0, slices[1]), slices[2]))
             b2 == push_back(push_back(b1, (crc_num \div 256) % 256, c),
                             crc_num % 256, c)
             e  == cobs_encode(b2, c)
         IN  IF e.status # "Ok" THEN [status |-> e.status, ret |-> 0, buf |-> e.buf]
             ELSE [status |-> "Ok", ret |-> len(e.buf), buf |-> e.buf]

\* let crc_rec: u16 = (crc_rec_high_byte << 8) & crc_rec_low_byte;
\* crc_num != crc_rec
crc_matches_versioned(crc_num, crc_rec_high_byte, crc_rec_low_byte) ==
    crc_num = BitAnd((crc_rec_high_byte * 256) % 65536, crc_rec_low_byte, 16)

\* BinaryCom::receive_message of binarycom.rs (with version byte); the CRC
\* of the first msg_size bytes is digested as in compute_crc
receive_message_versioned(buf, out, c, checks) ==
    IF Len(out.data) < c - 4 THEN Stop("SliceTooSmall", buf, out)
    ELSE
    LET d == cobs_decode(buf, c, checks) IN
    IF d.status # "Ok" THEN Stop(d.status, d.buf, out)
    ELSE
    LET msg_size == usize_sub(d.ret, 2, checks) IN
    IF msg_size.panic THEN Stop("Panic", d.buf, out)
    ELSE
    LET data_size == usize_sub(msg_size.v, 2, checks) IN
    IF data_size.panic THEN Stop("Panic", d.buf, out)
    ELSE
    LET crc == compute_crc(d.buf, msg_size.v, c) IN
    IF crc.status # "Ok" THEN Stop(crc.status, d.buf, out)
    ELSE IF len(d.buf) = 0 THEN Stop("QueueIndexingError", d.buf, out)
    ELSE
    LET out1 == [out EXCEPT !.version = Head(d.buf.xs)]
        b1   == pop_front(d.buf, c)
    IN
    IF len(b1) = 0 THEN Stop("QueueIndexingError", b1, out1)
    ELSE
    LET out2 == [out1 EXCEPT !.command = Head(b1.xs)]
        p    == pop_data(pop_front(b1, c), out.data, 0, data_size.v, c)
        out3 == [out2 EXCEPT !.data = p.data]
    IN
    IF p.status # "Ok" THEN Stop(p.status, p.buf, out3)
    ELSE IF len(p.buf) = 0 THEN Stop("QueueIndexingError", p.buf, out3)
    ELSE IF len(p.buf) = 1 THEN Stop("QueueIndexingError", pop_front(p.buf, c), out3)
    ELSE
    LET crc_rec_high_byte == p.buf.xs[1]
        crc_rec_low_byte  == p.buf.xs[2]
        b3 == pop_front(pop_front(p.buf, c), c)
    IN
    IF ~crc_matches_versioned(crc.crc, crc_rec_high_byte, crc_rec_low_byte)
    THEN Stop("CRCMismatch", b3, out3)
    ELSE [status |-> "Ok", ret |-> data_size.v, buf |-> b3,
          version |-> out3.version, command |-> out3.command, data |-> out3.data]

-----------------------------------------------------------------------------
(* Byte stuffer: COBSExt for Vec<u8> (cobs.rs), used by the peer *)

vec_cobs_encode(v) ==
    IF Len(v) = 0 THEN [status |-> "COBSTooLittleData", ret |-> 0, v |-> v]
    ELSE LET w == cobs_encode_loop(<<0>> \o v \o <<0>>, 1, 0)
         IN  [status |-> w.status,
              ret |-> IF w.status = "Ok" THEN Len(w.xs) ELSE 0,
              v |-> w.xs]

\* a decoder that leaves the overhead byte at the front
vec_cobs_decode_keeps_front(v, checks) ==
    IF Len(v) < 3 THEN [status |-> "COBSTooLittleData", ret |-> 0, v |-> v]
    ELSE LET w == cobs_decode_loop(v, 0)
         IN  IF ~w.comma_found
             THEN [status |-> "COBSDecodeNoCommaFound", ret |-> 0, v |-> w.xs]
             ELSE LET r == usize_sub(w.i_zero, 1, checks)
                  IN  IF r.panic
                      THEN [status |-> "Panic", ret |-> 0, v |-> w.xs]
                      ELSE [status |-> "Ok", ret |-> r.v, v |-> w.xs]

\* the same loop as the ring buffer's on the elements of the vector, then
\* self.remove(0)
vec_cobs_decode(v, checks) ==
    IF Len(v) < 3 THEN [status |-> "COBSTooLittleData", ret |-> 0, v |-> v]
    ELSE LET w == cobs_decode_loop(v, 0)
         IN  IF ~w.comma_found
             THEN [status |-> "COBSDecodeNoCommaFound", ret |-> 0, v |-> w.xs]
             ELSE LET r == usize_sub(w.i_zero, 1, checks)
                  IN  IF r.panic
                      THEN [status |-> "Panic", ret |-> 0, v |-> Tail(w.xs)]
                      ELSE [status |-> "Ok", ret |-> r.v, v |-> Tail(w.xs)]

-----------------------------------------------------------------------------
(* Byte stuffer on a slice: cobs_encode and cobs_decode of cobs_redo.rs *)

\* one iteration of the loop of cobs_encode: a zero at i makes the last
\* zero hold (i - i_last_zero) as u8.  xs is 1-based, i and i_last_zero
\* are the code's 0-based indices.
redo_encode_step(st, i) ==
    IF st.xs[i + 1] = 0
    THEN [xs |-> [st.xs EXCEPT ![st.i_last_zero + 1] = (i - st.i_last_zero) % 256],
          i_last_zero |-> i]
    ELSE st

RECURSIVE redo_encode_range(_, _, _)
\* the iterations i = lo .. hi-1 in order, the range split in halves to
\* keep the evaluation shallow
redo_encode_range(st, lo, hi) ==
    IF lo >= hi THEN st
    ELSE IF hi - lo = 1 THEN redo_encode_step(st, lo)
    ELSE LET mid == (lo + hi) \div 2
             first == redo_encode_range(st, lo, mid)
         IN  IF first.i_last_zero >= 0
             THEN redo_encode_range(first, mid, hi)
             ELSE st

\* an encoder that leaves the last zero as the loop left it
redo_cobs_encode_open_end(buf) ==
    IF Len(buf) = 0 THEN [status |-> "Panic", buf |-> buf]
    ELSE [status |-> "Ok",
          buf |-> redo_encode_range([xs |-> buf, i_last_zero |-> 0], 1, Len(buf)).xs]

\* cobs_redo::cobs_encode: for i in 1..buf.len(), then buf[i_last_zero] =
\* 0xFF, which is out of range for an empty slice
redo_cobs_encode(buf) ==
    IF Len(buf) = 0 THEN [status |-> "Panic", buf |-> buf]
    ELSE LET st == redo_encode_range([xs |-> buf, i_last_zero |-> 0], 1, Len(buf))
         IN  [status |-> "Ok", buf |-> [st.xs EXCEPT ![st.i_last_zero + 1] = 255]]

\* one iteration of the loop of cobs_decode: the byte at i_next_zero gives
\* the position of the next one and becomes zero
redo_decode_step(st, i) ==
    IF i = st.i_next_zero
    THEN [xs |-> [st.xs EXCEPT ![i + 1] = 0], i_next_zero |-> st.xs[i + 1] + i]
    ELSE st

RECURSIVE redo_decode_range(_, _, _)
\* the iterations i = lo .. hi-1 in order, split in halves
redo_decode_range(st, lo, hi) ==
    IF lo >= hi THEN st
    ELSE IF hi - lo = 1 THEN redo_decode_step(st, lo)
    ELSE LET mid == (lo + hi) \div 2
             first == redo_decode_range(st, lo, mid)
         IN  IF first.i_next_zero >= 0
             THEN redo_decode_range(first, mid, hi)
             ELSE st

\* cobs_redo::cobs_decode: for i in 0..buf.len()
redo_cobs_decode(buf) ==
    [status |-> "Ok",
     buf |-> redo_decode_range([xs |-> buf, i_next_zero |-> 0], 0, Len(buf)).xs]

-----------------------------------------------------------------------------
(* Register packers (binarycom/packers.rs) *)

\* the low byte of x << k, which is all that "x << k & 0xFF" keeps
shl_low_byte(x, k) == IF k >= 8 THEN 0 ELSE (x * (2^k)) % 256

\* (u16::from(data[0]) << (8 * 1) & 0xFF) & (u16::from(data[1]) << (8 * 0) & 0xFF)
\* "<<" binds tighter than "&"
unpack_reg_num(data) ==
    BitAnd(shl_low_byte(data[1], 8), shl_low_byte(data[2], 0), 8)

dev_read_reg_unpack(data) ==
    IF Len(data) < 2 THEN [status |-> "SliceTooSmall", reg_num |-> 0]
    ELSE [status |-> "Ok", reg_num |-> unpack_reg_num(data)]

dev_write_reg8_unpack(data) ==
    IF Len(data) < 3 THEN [status |-> "SliceTooSmall", reg_num |-> 0, reg_val |-> 0]
    ELSE [status |-> "Ok", reg_num |-> unpack_reg_num(data), reg_val |-> data[3]]

\* reg_val: the "and" of the low bytes of data[2] << 24, data[3] << 16,
\* data[4] << 8 and data[5] << 0
dev_write_reg32_unpack(data) ==
    IF Len(data) < 6 THEN [status |-> "SliceTooSmall", reg_num |-> 0, reg_val |-> 0]
    ELSE [status |-> "Ok", reg_num |-> unpack_reg_num(data),
          reg_val |-> BitAnd(BitAnd(shl_low_byte(data[3], 24),
                                    shl_low_byte(data[4], 16), 8),
                             BitAnd(shl_low_byte(data[5], 8),
                                    shl_low_byte(data[6], 0), 8), 8)]

\* the pack functions return [status, ret, data]: data is the destination
\* after the call
dev_write_reg_pack(reg_num, data) ==
    IF Len(data) < 2 THEN [status |-> "SliceTooSmall", ret |-> 0, data |-> data]
    ELSE [status |-> "Ok", ret |-> 2,
          data |-> [data EXCEPT ![1] = (reg_num \div 256) % 256,
                                ![2] = reg_num % 256]]

dev_read_reg8_pack(reg_num, reg_val, data) ==
    IF Len(data) < 3 THEN [status |-> "SliceTooSmall", ret |-> 0, data |-> data]
    ELSE [status |-> "Ok", ret |-> 3,
          data |-> [data EXCEPT ![1] = (reg_num \div 256) % 256,
                                ![2] = reg_num % 256,
                                ![3] = reg_val]]

\* a 32-bit pack that writes the value least significant byte first
dev_read_reg32_pack_little_endian(reg_num, reg_val, data) ==
    IF Len(data) < 6 THEN [status |-> "SliceTooSmall", ret |-> 0, data |-> data]
    ELSE [status |-> "Ok", ret |-> 6,
          data |-> [data EXCEPT ![1] = (reg_num \div 256) % 256,
                                ![2] = reg_num % 256,
                                ![3] = reg_val % 256,
                                ![4] = (reg_val \div 256) % 256,
                                ![5] = (reg_val \div 65536) % 256,
                                ![6] = (reg_val \div 16777216) % 256]]

dev_read_reg32_pack(reg_num, reg_val, data) ==
    IF Len(data) < 6 THEN [status |-> "SliceTooSmall", ret |-> 0, data |-> data]
    ELSE [status |-> "Ok", ret |-> 6,
          data |-> [data EXCEPT ![1] = (reg_num \div 256) % 256,
                                ![2] = reg_num % 256,
                                ![3] = (reg_val \div 16777216) % 256,
                                ![4] = (reg_val \div 65536) % 256,
                                ![5] = (reg_val \div 256) % 256,
                                ![6] = reg_val % 256]]

host_read_reg_pack(reg_num, data) == dev_write_reg_pack(reg_num, data)

host_write_reg8_pack(reg_num, reg_val, data) ==
    dev_read_reg8_pack(reg_num, reg_val, data)

host_write_reg32_pack(reg_num, reg_val, data) ==
    dev_read_reg32_pack(reg_num, reg_val, data)

host_write_reg_unpack(data) == dev_read_reg_unpack(data)

\* an unpack that takes every source of 6 bytes or more as a 32-bit response
host_read_reg_unpack_at_least(data) ==
    IF Len(data) = 3 THEN dev_write_reg8_unpack(data)
    ELSE IF Len(data) >= 6 THEN dev_write_reg32_unpack(data)
    ELSE [status |-> "SliceTooSmall", reg_num |-> 0, reg_val |-> 0]

host_read_reg_unpack(data) ==
    IF Len(data) = 3 THEN dev_write_reg8_unpack(data)
    ELSE IF Len(data) = 6 THEN dev_write_reg32_unpack(data)
    ELSE [status |-> "SliceTooSmall", reg_num |-> 0, reg_val |-> 0]

PackOps ==
    {"dev_write_reg_pack", "dev_read_reg8_pack", "dev_read_reg32_pack",
     "host_read_reg_pack", "host_write_reg8_pack", "host_write_reg32_pack"}

UnpackOps ==
    {"dev_read_reg_unpack", "dev_write_reg8_unpack", "dev_write_reg32_unpack",
     "host_write_reg_unpack", "host_read_reg_unpack"}

\* the pack function named op called on a destination slice
pack(op, reg_num, reg_val, data) ==
    CASE op = "dev_write_reg_pack" -> dev_write_reg_pack(reg_num, data)
      [] op = "dev_read_reg8_pack" -> dev_read_reg8_pack(reg_num, reg_val, data)
      [] op = "dev_read_reg32_pack" -> dev_read_reg32_pack(reg_num, reg_val, data)
      [] op = "host_read_reg_pack" -> host_read_reg_pack(reg_num, data)
      [] op = "host_write_reg8_pack" -> host_write_reg8_pack(reg_num, reg_val, data)
      [] op = "host_write_reg32_pack" -> host_write_reg32_pack(reg_num, reg_val, data)

\* the unpack function named op called on a source slice: [status, reg_num,
\* reg_val], reg_val being 0 for the functions that return the register only
unpack(op, data) ==
    LET only_reg(u) == [status |-> u.status, reg_num |-> u.reg_num, reg_val |-> 0]
    IN  CASE op = "dev_read_reg_unpack" -> only_reg(dev_read_reg_unpack(data))
          [] op = "dev_write_reg8_unpack" -> dev_write_reg8_unpack(data)
          [] op = "dev_write_reg32_unpack" -> dev_write_reg32_unpack(data)
          [] op = "host_write_reg_unpack" -> only_reg(host_write_reg_unpack(data))
          [] op = "host_read_reg_unpack" -> host_read_reg_unpack(data)

\* x >> 0xF on a u8: the shift is as wide as the type or wider; it panics
\* with overflow checks, and shifts by 0xF mod 8 without
shr_0xF(x, checks) ==
    IF checks THEN [panic |-> TRUE, v |-> 0] ELSE [panic |-> FALSE, v |-> x \div 128]

\* (command & 0b111) * 4
word_size_bits(command) == (command % 8) * 4

\* command >> 3 & 0x1F
n_per_sample_word(command) == (command \div 8) % 32

\* packers::unpack_stream: [status, samples].  word_size_bits is at most
\* 7 * 4 = 28, so the arm for 32 is never taken; every width without an arm
\* ends in unimplemented!()
unpack_stream(command, data, checks) ==
    LET n == Len(data)
    IN  IF n_per_sample_word(command) # 1 THEN [status |-> "Panic", samples |-> <<>>]
        ELSE IF word_size_bits(command) = 4
        THEN IF n > 0 /\ checks THEN [status |-> "Panic", samples |-> <<>>]
             ELSE [status |-> "Ok",
                   samples |-> [k \in 1..(2 * n) |->
                                  IF k % 2 = 1
                                  THEN shr_0xF(data[(k + 1) \div 2], checks).v
                                  ELSE data[k \div 2] % 16]]
        ELSE IF word_size_bits(command) = 8 THEN [status |-> "Ok", samples |-> data]
        ELSE IF word_size_bits(command) = 12
        THEN IF n % 3 # 0 THEN [status |-> "Panic", samples |-> <<>>]
             ELSE [status |-> "Ok",
                   samples |-> [k \in 1..(2 * (n \div 3)) |->
                                  LET i == 3 * ((k - 1) \div 2) + 1
                                  IN  IF k % 2 = 1
                                      THEN BitAnd(data[i] * 16, data[i + 1] \div 16, 12)
                                      ELSE BitAnd((data[i + 1] % 16) * 16,
                                                  data[i + 2], 12)]]
        ELSE IF word_size_bits(command) = 16
        THEN IF n % 2 # 0 THEN [status |-> "Panic", samples |-> <<>>]
             ELSE [status |-> "Ok",
                   samples |-> [k \in 1..(n \div 2) |->
                                  BitAnd(data[2 * k - 1] * 256, data[2 * k], 16)]]
        ELSE IF word_size_bits(command) = 32
        THEN IF n % 4 # 0 THEN [status |-> "Panic", samples |-> <<>>]
             ELSE [status |-> "Ok",
                   samples |-> [k \in 1..(n \div 4) |->
                                  LET d01 == BitAnd(data[4 * k - 3] * 256,
                                                    data[4 * k - 2], 16)
                                      d23 == BitAnd(data[4 * k - 1] * 256,
                                                    data[4 * k], 16)
                                  IN  BitAnd(d01 * 65536, d23, 30)]]
        ELSE [status |-> "Panic", samples |-> <<>>]

\* hostreceiver::unpack_tx: the same body as packers::unpack_stream
unpack_tx(command, data, checks) == unpack_stream(command, data, checks)

-----------------------------------------------------------------------------
(* Host receiver: message_router (binarycom/hostreceiver.rs) *)

\* the result of message_router: its status and the three channels after it
Routed(st, reg_read, reg_write, stream) ==
    [status |-> st, reg_read |-> reg_read, reg_write |-> reg_write,
     stream |-> stream]

\* a router that treats the reserved commands 3..0x7F as streaming data
message_router_reserved_streamed(command, data, chans) ==
    IF command \in 3..255
    THEN Routed("Ok", chans.reg_read, chans.reg_write,
                Append(chans.stream, <<command, data>>))
    ELSE Routed("Ok", chans.reg_read, chans.reg_write, chans.stream)

\* message_router: chans holds the content of the three channels and, for
\* each, whether its receiving end still exists (send fails when it does
\* not)
message_router(command, data, chans) ==
    LET same(st) == Routed(st, chans.reg_read, chans.reg_write, chans.stream)
    IN  IF command = 1
        THEN LET u == host_read_reg_unpack(data)
             IN  IF u.status # "Ok" THEN same(u.status)
                 ELSE IF ~chans.client_alive THEN same("MPSCSendErrorRegNumVal")
                 ELSE Routed("Ok", Append(chans.reg_read, <<u.reg_num, u.reg_val>>),
                             chans.reg_write, chans.stream)
        ELSE IF command = 2
        THEN LET u == host_write_reg_unpack(data)
             IN  IF u.status # "Ok" THEN same(u.status)
                 ELSE IF ~chans.client_alive THEN same("MPSCSendErrorRegNum")
                 ELSE Routed("Ok", chans.reg_read,
                             Append(chans.reg_write, u.reg_num), chans.stream)
        ELSE IF command \in 128..255
        THEN IF ~chans.stream_alive THEN same("MPSCSendErrorStream")
             ELSE Routed("Ok", chans.reg_read, chans.reg_write,
                         Append(chans.stream, <<command, data>>))
        ELSE same("Ok")

-----------------------------------------------------------------------------
(* Input domains *)

Capacities == {16, 64}

Commands == {1, 2, 112, 133}

Versions == {0, 199}

DataBytes == {0, 1, 255}

RECURSIVE SeqsUpTo(_, _)
\* all sequences over S of length 0..n
SeqsUpTo(S, n) ==
    IF n = 0 THEN {<<>>}
    ELSE LET shorter == SeqsUpTo(S, n - 1)
         IN  shorter \cup {Append(w, b) : w \in shorter, b \in S}

ShortPayloads == SeqsUpTo(DataBytes, MaxData)

\* payloads around the largest one a buffer of capacity c can carry
BoundaryPayloads(c) ==
    {[i \in 1..n |-> b] : n \in {c - 6, c - 5, c - 4}, b \in {0, 255}}

\* destination sizes around the smallest one receive_message accepts
DestSizes(c) == {c - 6, c - 5, c - 4}

Zeros(n) == [i \in 1..n |-> 0]

-----------------------------------------------------------------------------
(* State *)

NoCall == [status |-> "None", ret |-> 0, version |-> 0, command |-> 0, data |-> <<>>]

\* no byte stuffer call made on q yet
NoQCall == [op |-> "none", status |-> "None", ret |-> 0]

\* no message routed yet
NoRoute == [status |-> "None", command |-> 0, data |-> <<>>, n |-> 0]

\* no unpack_stream call made yet
NoUnpack == [status |-> "None", command |-> 0, data |-> <<>>, samples |-> <<>>]

\* no pack or unpack function called yet
NoPackCall ==
    [op |-> "none", command |-> 0, reg_num |-> 0, reg_val |-> 0, src |-> <<>>,
     dest |-> <<>>, status |-> "None", ret |-> 0, out |-> <<>>,
     unp |-> [op |-> "none", status |-> "None", reg_num |-> 0, reg_val |-> 0]]

\* the client is not in a register call
NoRegCall ==
    [op |-> "none", reg_num |-> 0, reg_val |-> 0, pc |-> "idle",
     status |-> "None", ret |-> 0, last |-> <<>>]

\* the sender, the line and the receiver thread at start
InitLink(c, ver, checks, dest) ==
    /\ cap = c
    /\ versioned = ver
    /\ overflow_checks = checks
    /\ outbuf = EmptyBuf
    /\ tx = NoCall
    /\ wire = <<>>
    /\ frames = <<>>
    /\ inbuf = EmptyBuf
    /\ ingested = 0
    /\ rx = [NoCall EXCEPT !.data = Zeros(dest)]
    /\ alive = TRUE
    /\ log = <<>>

\* no buffer under test by the byte stuffer
InitStuffer ==
    /\ q = EmptyBuf
    /\ q_orig = EmptyBuf
    /\ q_call = NoQCall
    /\ vec = <<>>
    /\ vec_orig = <<>>
    /\ vec_call = NoQCall

\* the three channels at creation, the stream thread started
InitQueues ==
    /\ rx_reg_read = <<>>
    /\ rx_reg_write = <<>>
    /\ rx_stream = <<>>
    /\ routed = NoRoute
    /\ stream_alive = TRUE
    /\ stream_last = NoUnpack

\* nothing pushed into q, no pack or unpack function called
InitUnits ==
    /\ pushed = <<>>
    /\ pack_call = NoPackCall

\* BinaryComApp::new(register_bit_width, ..)
InitClient(register_bit_width) ==
    /\ regbitwidth = register_bit_width
    /\ call = NoRegCall
    /\ serial_out = <<>>

InitState(c, ver, checks, dest) ==
    /\ InitLink(c, ver, checks, dest)
    /\ InitStuffer
    /\ InitQueues
    /\ InitClient("Eight")
    /\ InitUnits

\* the codec this run uses
Send(buf, version, command, data) ==
    IF versioned THEN send_message_versioned(buf, version, command, data, cap)
    ELSE send_message(buf, command, data, cap)

Receive(buf, out) ==
    IF versioned THEN receive_message_versioned(buf, out, cap, overflow_checks)
    ELSE receive_message(buf, out, cap, overflow_checks)

\* header and payload of a frame, as checksummed
Message(version, command, data) ==
    IF versioned THEN <<version, command>> \o data ELSE <<command>> \o data

-----------------------------------------------------------------------------
(* Actions *)

\* the sender calls send_message
SendMessage(version, command, data) ==
    /\ tx.status = "None"
    /\ LET r == Send(outbuf, version, command, data)
       IN  /\ outbuf' = r.buf
           /\ tx' = [status |-> r.status, ret |-> r.ret, version |-> version,
                     command |-> command, data |-> data, before |-> outbuf]
    /\ UNCHANGED <<cap, versioned, overflow_checks, wire, frames, inbuf,
                   ingested, rx, alive, log>>
    /\ UNCHANGED <<cobsvars, queuevars, streamvars, appvars, unitvars>>

\* the sender writes the encoded frame to the line
Transmit ==
    /\ tx.status = "Ok"
    /\ Len(frames) < MaxFrames
    /\ wire' = wire \o outbuf.xs
    /\ frames' = Append(frames,
                        [src |-> "send_message", version |-> tx.version,
                         command |-> tx.command, data |-> tx.data,
                         high |-> -1, low |-> -1, bytes |-> outbuf.xs])
    /\ tx' = NoCall
    /\ UNCHANGED <<cap, versioned, overflow_checks, outbuf, inbuf, ingested,
                   rx, alive, log>>
    /\ UNCHANGED <<cobsvars, queuevars, streamvars, appvars, unitvars>>

\* a well-framed message with checksum bytes high, low reaches the line:
\* the message and its two checksum bytes, COBS-encoded
Forge(version, command, data, high, low) ==
    /\ Len(frames) < MaxFrames
    /\ LET e == vec_cobs_encode(Message(version, command, data) \o <<high, low>>)
       IN  /\ e.status = "Ok"
           /\ wire' = wire \o e.v
           /\ frames' = Append(frames,
                               [src |-> "peer", version |-> version,
                                command |-> command, data |-> data,
                                high |-> high, low |-> low, bytes |-> e.v])
    /\ UNCHANGED <<cap, versioned, overflow_checks, outbuf, tx, inbuf,
                   ingested, rx, alive, log>>
    /\ UNCHANGED <<cobsvars, queuevars, streamvars, appvars, unitvars>>

\* the receiver reads the next k bytes of the line into its ring buffer
Ingest(k) ==
    /\ alive
    /\ k \in 1..Len(wire)
    /\ inbuf' = extend_back(inbuf, SubSeq(wire, 1, k), cap)
    /\ wire' = SubSeq(wire, k + 1, Len(wire))
    /\ ingested' = ingested + k
    /\ UNCHANGED <<cap, versioned, overflow_checks, outbuf, tx, frames, rx,
                   alive, log>>
    /\ UNCHANGED <<cobsvars, queuevars, streamvars, appvars, unitvars>>

\* the effect of a receive_message call with result r on the receiver's
\* buffer and output variables; a panic ends the thread.  record: the call
\* is appended to the history log
ReceiveEffect(out, r, record) ==
    /\ inbuf' = r.buf
    /\ rx' = [status |-> r.status, ret |-> r.ret, version |-> r.version,
              command |-> r.command, data |-> r.data]
    /\ alive' = (r.status # "Panic")
    /\ log' = IF ~record THEN log
              ELSE Append(log,
                          [op |-> "receive_message",
                           status |-> r.status, ret |-> r.ret,
                           version |-> r.version, command |-> r.command,
                           data |-> IF r.status = "Ok"
                                    THEN SubSeq(r.data, 1, r.ret) ELSE <<>>,
                           dest |-> Len(out.data), out |-> out,
                           before |-> inbuf.xs,
                           ingested |-> ingested])
    /\ UNCHANGED <<cap, versioned, overflow_checks, outbuf, tx, wire, frames,
                   ingested>>

\* receive_message called with the output variables out
ReceiveMessage(out) ==
    /\ alive
    /\ Len(log) < MaxReceives
    /\ ReceiveEffect(out, Receive(inbuf, out), TRUE)
    /\ UNCHANGED <<cobsvars, queuevars, streamvars, appvars, unitvars>>

\* the three channels as message_router finds them
Chans ==
    [reg_read |-> rx_reg_read, reg_write |-> rx_reg_write, stream |-> rx_stream,
     client_alive |-> call.pc # "panicked", stream_alive |-> stream_alive]

\* a receiver loop that routes whatever receive_message left in its output
\* variables, also after an error
ReceiverLoop_routes_errors(record) ==
    /\ alive
    /\ record => Len(log) < MaxReceives
    /\ \E out \in {[version |-> rx.version, command |-> rx.command,
                     data |-> rx.data]} :
       \E r \in {receive_message(inbuf, out, 16, overflow_checks)} :
           /\ ReceiveEffect(out, r, record)
           /\ \E m \in {message_router(r.command, r.data, Chans)} :
                  /\ rx_reg_read' = m.reg_read
                  /\ rx_reg_write' = m.reg_write
                  /\ rx_stream' = m.stream
                  /\ routed' = [status |-> m.status, command |-> r.command,
                                data |-> r.data, n |-> routed.n]
    /\ UNCHANGED <<cobsvars, streamvars, appvars, unitvars>>

\* one iteration of the loop of the receiver thread: receive_message into
\* the thread's command and data variables and, on Ok, message_router
ReceiverLoop(record) ==
    /\ alive
    /\ record => Len(log) < MaxReceives
    /\ \E out \in {[version |-> rx.version, command |-> rx.command,
                     data |-> rx.data]} :
       \E r \in {receive_message(inbuf, out, 16, overflow_checks)} :
           /\ ReceiveEffect(out, r, record)
           /\ IF r.status = "Ok"
              THEN \E m \in {message_router(r.command, SubSeq(r.data, 1, r.ret),
                                            Chans)} :
                       /\ rx_reg_read' = m.reg_read
                       /\ rx_reg_write' = m.reg_write
                       /\ rx_stream' = m.stream
                       /\ routed' = [status |-> m.status, command |-> r.command,
                                     data |-> SubSeq(r.data, 1, r.ret),
                                     n |-> routed.n]
              ELSE UNCHANGED queuevars
    /\ UNCHANGED <<cobsvars, streamvars, appvars, unitvars>>

\* a router whose channels hand out the newest entry first
Route_newest_first(command, data) ==
    /\ routed.n < MaxRoutes
    /\ \E m \in {message_router(command, data, Chans)} :
           /\ rx_reg_read' = IF m.reg_read = rx_reg_read THEN rx_reg_read
                             ELSE <<m.reg_read[Len(m.reg_read)]>> \o rx_reg_read
           /\ rx_reg_write' = IF m.reg_write = rx_reg_write THEN rx_reg_write
                              ELSE <<m.reg_write[Len(m.reg_write)]>> \o rx_reg_write
           /\ rx_stream' = IF m.stream = rx_stream THEN rx_stream
                           ELSE <<m.stream[Len(m.stream)]>> \o rx_stream
           /\ routed' = [status |-> m.status, command |-> command,
                         data |-> data, n |-> routed.n + 1]
    /\ UNCHANGED <<codecvars, cobsvars, streamvars, appvars, unitvars>>

\* message_router called on a decoded message
Route(command, data) ==
    /\ routed.n < MaxRoutes
    /\ \E m \in {message_router(command, data, Chans)} :
           /\ rx_reg_read' = m.reg_read
           /\ rx_reg_write' = m.reg_write
           /\ rx_stream' = m.stream
           /\ routed' = [status |-> m.status, command |-> command,
                         data |-> data, n |-> routed.n + 1]
    /\ UNCHANGED <<codecvars, cobsvars, streamvars, appvars, unitvars>>

\* the receiver thread reads a chunk of bytes from the line into its ring
\* buffer
Arrive(bytes) ==
    /\ alive
    /\ inbuf' = extend_back(inbuf, bytes, cap)
    /\ UNCHANGED <<cap, versioned, overflow_checks, outbuf, tx, wire, frames,
                   ingested, rx, alive, log>>
    /\ UNCHANGED <<cobsvars, queuevars, streamvars, appvars, unitvars>>

\* the stream thread: rx_stream.recv() returns an entry, unpack_stream; a
\* panic ends the thread and drops the receiving end of the channel
StreamRecv ==
    /\ stream_alive
    /\ rx_stream # <<>>
    /\ \E command \in {Head(rx_stream)[1]}, data \in {Head(rx_stream)[2]} :
       \E u \in {unpack_stream(command, data, overflow_checks)} :
           /\ rx_stream' = Tail(rx_stream)
           /\ stream_alive' = (u.status # "Panic")
           /\ stream_last' = [status |-> u.status, command |-> command,
                              data |-> data, samples |-> u.samples]
    /\ UNCHANGED <<codecvars, cobsvars, rx_reg_read, rx_reg_write, routed, appvars, unitvars>>

\* the stream thread: rx_stream.recv() returns RecvError once the channel
\* is empty and the receiver thread is gone; the thread returns
StreamDisconnected ==
    /\ stream_alive
    /\ rx_stream = <<>>
    /\ ~alive
    /\ stream_alive' = FALSE
    /\ stream_last' = [NoUnpack EXCEPT !.status = "Disconnected"]
    /\ UNCHANGED <<codecvars, cobsvars, queuevars, appvars, unitvars>>

\* packers::unpack_stream called on a command byte and a payload
UnpackStream(command, data) ==
    /\ \E u \in {unpack_stream(command, data, overflow_checks)} :
           pack_call' = [NoPackCall EXCEPT !.op = "unpack_stream",
                                           !.command = command,
                                           !.src = data,
                                           !.status = u.status,
                                           !.out = u.samples]
    /\ UNCHANGED <<codecvars, cobsvars, queuevars, streamvars, appvars, pushed>>

\* hostreceiver::unpack_tx called on a command byte and a payload
UnpackTx(command, data) ==
    /\ \E u \in {unpack_tx(command, data, overflow_checks)} :
           pack_call' = [NoPackCall EXCEPT !.op = "unpack_tx",
                                           !.command = command,
                                           !.src = data,
                                           !.status = u.status,
                                           !.out = u.samples]
    /\ UNCHANGED <<codecvars, cobsvars, queuevars, streamvars, appvars, pushed>>

\* a pack function called with a register, a value and a destination slice
Pack(op, reg_num, reg_val, dest) ==
    /\ \E p \in {pack(op, reg_num, reg_val, dest)} :
           pack_call' = [NoPackCall EXCEPT !.op = op,
                                           !.reg_num = reg_num,
                                           !.reg_val = reg_val,
                                           !.dest = dest,
                                           !.status = p.status,
                                           !.ret = p.ret,
                                           !.out = p.data]
    /\ UNCHANGED <<codecvars, cobsvars, queuevars, streamvars, appvars, pushed>>

\* an unpack function called on the bytes the last pack call has written:
\* the first ret bytes of its destination
UnpackPacked(op) ==
    /\ pack_call.op \in PackOps
    /\ pack_call.status = "Ok"
    /\ \E data \in {SubSeq(pack_call.out, 1, pack_call.ret)} :
       \E u \in {unpack(op, data)} :
           pack_call' = [pack_call EXCEPT !.src = data,
                                          !.unp = [op |-> op, status |-> u.status,
                                                   reg_num |-> u.reg_num,
                                                   reg_val |-> u.reg_val]]
    /\ UNCHANGED <<codecvars, cobsvars, queuevars, streamvars, appvars, pushed>>

\* an unpack function called on a source slice
Unpack(op, data) ==
    /\ \E u \in {unpack(op, data)} :
           pack_call' = [NoPackCall EXCEPT !.op = "unpack",
                                           !.src = data,
                                           !.unp = [op |-> op, status |-> u.status,
                                                    reg_num |-> u.reg_num,
                                                    reg_val |-> u.reg_val]]
    /\ UNCHANGED <<codecvars, cobsvars, queuevars, streamvars, appvars, pushed>>

RECURSIVE Flatten(_)
\* the chunks of a history, one after the other
Flatten(chunks) ==
    IF Len(chunks) = 0 THEN <<>>
    ELSE Flatten(SubSeq(chunks, 1, Len(chunks) - 1)) \o chunks[Len(chunks)]

\* the bytes push_back_rand draws: rng.gen_ratio(perc_extra_zero, 100) is
\* always true for 100 and never for 0; a drawn byte is represented by the
\* low byte of its position in the history, so that no two bytes within a
\* window of 256 are the same
rand_bytes(n, perc_extra_zero, start) ==
    [i \in 1..n |-> IF perc_extra_zero = 100 THEN 0 ELSE (start + i) % 256]

\* a push_back_rand that stops when the buffer is full
PushBackRand_until_full(n, perc_extra_zero) ==
    /\ Len(pushed) < MaxPushes
    /\ \E bytes \in {rand_bytes(n, perc_extra_zero, Len(Flatten(pushed)))} :
           /\ q' = extend_back(q, IF n <= cap - Len(q.xs) THEN bytes
                                   ELSE SubSeq(bytes, 1, cap - Len(q.xs)), cap)
           /\ pushed' = Append(pushed, bytes)
    /\ UNCHANGED <<codecvars, q_orig, q_call, vecvars, queuevars, streamvars, appvars,
                   pack_call>>

\* CircBufExt::push_back_rand(n, perc_extra_zero): n bytes pushed at the
\* back, one push_back each
PushBackRand(n, perc_extra_zero) ==
    /\ Len(pushed) < MaxPushes
    /\ \E bytes \in {rand_bytes(n, perc_extra_zero, Len(Flatten(pushed)))} :
           /\ q' = extend_back(q, bytes, cap)
           /\ pushed' = Append(pushed, bytes)
    /\ UNCHANGED <<codecvars, q_orig, q_call, vecvars, queuevars, streamvars, appvars,
                   pack_call>>

\* write_to_serial: the content of the buffer is written to the file, in
\* order
write_to_serial(buf, file) == file \o buf.xs

\* a client that packs every write request for an 8-bit register
write_request_always_eight(width, reg_num, reg_val) ==
    IF reg_val > 255
    THEN [status |-> "TryFromInt", ret |-> 0, data |-> <<>>]
    ELSE host_write_reg8_pack(reg_num, reg_val, Zeros(3))

\* the request of a register call: op, the data the packer filled and its
\* status (u8::try_from(reg_val) fails for an 8-bit register and a value
\* above 255)
write_request(width, reg_num, reg_val) ==
    IF width = "Eight"
    THEN IF reg_val > 255
         THEN [status |-> "TryFromInt", ret |-> 0, data |-> <<>>]
         ELSE host_write_reg8_pack(reg_num, reg_val, Zeros(3))
    ELSE host_write_reg32_pack(reg_num, reg_val, Zeros(6))

\* the first half of write_reg and read_reg: the request is packed, framed
\* in outbuf by send_message and written to the serial line; an error of
\* one of these steps is returned to the caller
StartCall(op, command, reg_num, reg_val, packed) ==
    /\ call.pc \in {"idle", "returned"}
    /\ \E r \in {IF packed.status = "Ok"
                  THEN send_message(outbuf, command, packed.data, 16)
                  ELSE [status |-> packed.status, ret |-> 0, buf |-> outbuf]} :
           /\ outbuf' = r.buf
           /\ tx' = IF packed.status = "Ok"
                    THEN [status |-> r.status, ret |-> r.ret, version |-> 0,
                          command |-> command, data |-> packed.data,
                          before |-> outbuf]
                    ELSE tx
           /\ serial_out' = IF r.status = "Ok"
                            THEN write_to_serial(r.buf, serial_out)
                            ELSE serial_out
           /\ call' = [op |-> op, reg_num |-> reg_num, reg_val |-> reg_val,
                       pc |-> IF r.status = "Ok" THEN "waiting" ELSE "returned",
                       status |-> IF r.status = "Ok" THEN "None" ELSE r.status,
                       ret |-> 0, last |-> <<>>]
    /\ UNCHANGED <<cap, versioned, overflow_checks, wire, frames, inbuf,
                   ingested, rx, alive, log>>
    /\ UNCHANGED <<cobsvars, queuevars, streamvars, regbitwidth, unitvars>>

\* write_reg(reg_num, reg_val) up to its wait loop
CallWriteReg(reg_num, reg_val) ==
    \E packed \in {write_request(regbitwidth, reg_num, reg_val)} :
        StartCall("write_reg", 2, reg_num, reg_val, packed)

\* read_reg(reg_num) up to its wait loop
CallReadReg(reg_num) ==
    \E packed \in {host_read_reg_pack(reg_num, Zeros(2))} :
        StartCall("read_reg", 1, reg_num, 0, packed)

\* a test that takes every dequeued entry for the awaited one
reg_matches_any(reg_num_rec, reg_num) == TRUE

\* reg_num_rec == reg_num
reg_matches(reg_num_rec, reg_num) == reg_num_rec = reg_num

\* a wait that reports the failure to the caller as an error value
wait_failed_as_error(c, why) ==
    [c EXCEPT !.pc = "returned", !.status = why]

\* Timeout and Disconnected of recv_timeout: panic!
wait_failed(c, why) ==
    [c EXCEPT !.pc = "panicked", !.status = why]

\* the wait loop of write_reg: recv_timeout returns an acknowledgement
WriteRegRecv ==
    /\ call.pc = "waiting"
    /\ call.op = "write_reg"
    /\ rx_reg_write # <<>>
    /\ LET reg_num_rec == Head(rx_reg_write)
       IN  /\ rx_reg_write' = Tail(rx_reg_write)
           /\ call' = IF reg_matches(reg_num_rec, call.reg_num)
                      THEN [call EXCEPT !.pc = "returned", !.status = "Ok",
                                        !.last = <<reg_num_rec>>]
                      ELSE [call EXCEPT !.last = <<reg_num_rec>>]
    /\ UNCHANGED <<codecvars, cobsvars, rx_reg_read, rx_stream, routed,
                   streamvars, regbitwidth, serial_out, unitvars>>

\* the wait loop of read_reg: recv_timeout returns a response
ReadRegRecv ==
    /\ call.pc = "waiting"
    /\ call.op = "read_reg"
    /\ rx_reg_read # <<>>
    /\ LET reg_num_rec == Head(rx_reg_read)[1]
           reg_val_rec == Head(rx_reg_read)[2]
       IN  /\ rx_reg_read' = Tail(rx_reg_read)
           /\ call' = IF reg_matches(reg_num_rec, call.reg_num)
                      THEN [call EXCEPT !.pc = "returned", !.status = "Ok",
                                        !.ret = reg_val_rec,
                                        !.last = <<reg_num_rec, reg_val_rec>>]
                      ELSE [call EXCEPT !.last = <<reg_num_rec, reg_val_rec>>]
    /\ UNCHANGED <<codecvars, cobsvars, rx_reg_write, rx_stream, routed,
                   streamvars, regbitwidth, serial_out, unitvars>>

\* the queue the call in progress waits on
CallQueue == IF call.op = "write_reg" THEN rx_reg_write ELSE rx_reg_read

\* recv_timeout returns Timeout: 200 ms have passed since this
\* recv_timeout was called, the queue is empty and the receiver thread
\* still holds the sending end
CallTimeout ==
    /\ call.pc = "waiting"
    /\ CallQueue = <<>>
    /\ alive
    /\ call' = wait_failed(call, "Timeout")
    /\ UNCHANGED <<codecvars, cobsvars, queuevars, streamvars, regbitwidth,
                   serial_out, unitvars>>

\* recv_timeout returns Disconnected: the queue is empty and the receiver
\* thread, which held the sending end, is gone
CallDisconnected ==
    /\ call.pc = "waiting"
    /\ CallQueue = <<>>
    /\ ~alive
    /\ call' = wait_failed(call, "Disconnected")
    /\ UNCHANGED <<codecvars, cobsvars, queuevars, streamvars, regbitwidth,
                   serial_out, unitvars>>

\* cobs_decode called on its own on the receiver's buffer
CobsDecode ==
    /\ alive
    /\ Len(log) < MaxReceives
    /\ LET r == cobs_decode(inbuf, cap, overflow_checks)
       IN  /\ inbuf' = r.buf
           /\ alive' = (r.status # "Panic")
           /\ log' = Append(log,
                            [op |-> "cobs_decode",
                             status |-> r.status, ret |-> r.ret,
                             version |-> rx.version, command |-> rx.command,
                             data |-> <<>>, dest |-> Len(rx.data),
                             out |-> [version |-> rx.version,
                                      command |-> rx.command, data |-> rx.data],
                             before |-> inbuf.xs, ingested |-> ingested])
    /\ UNCHANGED <<cap, versioned, overflow_checks, outbuf, tx, wire, frames,
                   ingested, rx>>
    /\ UNCHANGED <<cobsvars, queuevars, streamvars, appvars, unitvars>>

\* the receiver reads one raw byte b that the line produced
ReadNoise(b) ==
    /\ alive
    /\ log = <<>>
    /\ ingested < MaxNoise
    /\ inbuf' = push_back(inbuf, b, cap)
    /\ ingested' = ingested + 1
    /\ UNCHANGED <<cap, versioned, overflow_checks, outbuf, tx, wire, frames,
                   rx, alive, log>>
    /\ UNCHANGED <<cobsvars, queuevars, streamvars, appvars, unitvars>>

\* q.cobs_encode() on the buffer under test
QCobsEncode ==
    /\ q_call.op = "none"
    /\ LET r == cobs_encode(q, cap)
       IN  /\ q' = r.buf
           /\ q_call' = [op |-> "cobs_encode", status |-> r.status, ret |-> r.ret]
    /\ UNCHANGED <<codecvars, q_orig, vecvars, queuevars, streamvars, appvars,
                   unitvars>>

\* q.cobs_decode() on the encoded buffer
QCobsDecode ==
    /\ q_call.op = "cobs_encode"
    /\ q_call.status = "Ok"
    /\ LET r == cobs_decode(q, cap, overflow_checks)
       IN  /\ q' = r.buf
           /\ q_call' = [op |-> "cobs_decode", status |-> r.status, ret |-> r.ret]
    /\ UNCHANGED <<codecvars, q_orig, vecvars, queuevars, streamvars, appvars,
                   unitvars>>

\* q.pop_back(): remove the comma
QPopBack ==
    /\ q_call.op = "cobs_decode"
    /\ q_call.status = "Ok"
    /\ len(q) > 0
    /\ q' = pop_back(q)
    /\ q_call' = [op |-> "pop_back", status |-> "Ok", ret |-> 0]
    /\ UNCHANGED <<codecvars, q_orig, vecvars, queuevars, streamvars, appvars,
                   unitvars>>

\* vec.cobs_encode() on the vector under test
VecCobsEncode ==
    /\ vec_call.op = "none"
    /\ LET r == vec_cobs_encode(vec)
       IN  /\ vec' = r.v
           /\ vec_call' = [op |-> "cobs_encode", status |-> r.status, ret |-> r.ret]
    /\ UNCHANGED <<codecvars, q, q_orig, q_call, vec_orig, queuevars, streamvars,
                   appvars, unitvars>>

\* vec.cobs_decode() on the encoded vector
VecCobsDecode ==
    /\ vec_call.op = "cobs_encode"
    /\ vec_call.status = "Ok"
    /\ LET r == vec_cobs_decode(vec, overflow_checks)
       IN  /\ vec' = r.v
           /\ vec_call' = [op |-> "cobs_decode", status |-> r.status, ret |-> r.ret]
    /\ UNCHANGED <<codecvars, q, q_orig, q_call, vec_orig, queuevars, streamvars,
                   appvars, unitvars>>

\* cobs_redo::cobs_encode(&mut vec)
RedoCobsEncode ==
    /\ vec_call.op = "none"
    /\ LET r == redo_cobs_encode(vec)
       IN  /\ vec' = r.buf
           /\ vec_call' = [op |-> "redo_encode", status |-> r.status, ret |-> 0]
    /\ UNCHANGED <<codecvars, q, q_orig, q_call, vec_orig, queuevars, streamvars,
                   appvars, unitvars>>

\* cobs_redo::cobs_decode(&mut vec) on the encoded slice
RedoCobsDecode ==
    /\ vec_call.op = "redo_encode"
    /\ vec_call.status = "Ok"
    /\ LET r == redo_cobs_decode(vec)
       IN  /\ vec' = r.buf
           /\ vec_call' = [op |-> "redo_decode", status |-> r.status, ret |-> 0]
    /\ UNCHANGED <<codecvars, q, q_orig, q_call, vec_orig, queuevars, streamvars,
                   appvars, unitvars>>

\* q.compute_crc_bytes(&msg_len) on the buffer under test
QComputeCrcBytes(msg_len) ==
    /\ \E r \in {compute_crc_bytes(q, msg_len, cap)} :
           q_call' = [op |-> "compute_crc_bytes", status |-> r.status,
                      ret |-> <<r.high, r.low>>, msg_len |-> msg_len]
    /\ UNCHANGED <<codecvars, q, q_orig, vecvars, queuevars, streamvars,
                   appvars, unitvars>>

-----------------------------------------------------------------------------
(* Spec: the host receiver (HostReceiver16: capacity 16, no version byte, *)
(* an 11-byte destination that lives as long as the thread) fed with      *)
(* frames from the line, whole or in chunks.                              *)

LinkCommands == {1, 133}

LinkPayloads == SeqsUpTo({0, 255}, 1)

\* the checksum bytes of a message, and a pair that differs from them
GoodCrc(version, command, data) ==
    LET crc == crc16dnp(Message(version, command, data))
    IN  <<(crc \div 256) % 256, crc % 256>>

\* the receiver reads the line in chunks of these sizes, or all of it
ChunkSizes == {2, 3}

OutVars == [version |-> rx.version, command |-> rx.command, data |-> rx.data]

Init == \E checks \in BOOLEAN : InitState(16, FALSE, checks, 11)

Next ==
    \/ \E command \in LinkCommands, data \in LinkPayloads :
           Len(frames) < MaxFrames /\ SendMessage(0, command, data)
    \/ Transmit
    \/ \E command \in LinkCommands, data \in LinkPayloads :
           LET good == GoodCrc(0, command, data)
           IN  /\ tx.status = "None"
               /\ Forge(0, command, data, (good[1] + 1) % 256, good[2])
    \/ \E k \in ChunkSizes \cup {Len(wire)} : Ingest(k)
    \/ ReceiveMessage(OutVars)

Spec == Init /\ [][Next]_vars

-----------------------------------------------------------------------------
(* SpecCodec: one frame through send_message and receive_message, for    *)
(* both codecs, both capacities and both build profiles.                 *)

InitCodec ==
    \E c \in Capacities, ver \in BOOLEAN, checks \in BOOLEAN :
        InitState(c, ver, checks, 0)

VersionsOfRun == IF versioned THEN Versions ELSE {0}

NextCodec ==
    \/ \E version \in VersionsOfRun, command \in Commands,
          data \in ShortPayloads \cup BoundaryPayloads(cap) :
           frames = <<>> /\ SendMessage(version, command, data)
    \/ frames = <<>> /\ Transmit
    \/ \E version \in VersionsOfRun, command \in Commands, data \in ShortPayloads,
          dh \in {0, 1}, dl \in {0, 1} :
           LET good == GoodCrc(version, command, data)
           IN  /\ frames = <<>>
               /\ tx.status = "None"
               /\ Forge(version, command, data,
                        (good[1] + dh) % 256, (good[2] + dl) % 256)
    \/ Ingest(Len(wire))
    \/ \E n \in DestSizes(cap) :
           /\ log = <<>>
           /\ ingested > 0
           /\ ReceiveMessage([version |-> 0, command |-> 0, data |-> Zeros(n)])

SpecCodec == InitCodec /\ [][NextCodec]_vars

-----------------------------------------------------------------------------
(* SpecDecode: the decoder on arbitrary buffer content read from a noisy *)
(* line.                                                                 *)

NoiseBytes == {0, 1, 2, 3, 255}

InitDecode ==
    \E ver \in BOOLEAN, checks \in BOOLEAN : InitState(16, ver, checks, 12)

NextDecode ==
    \/ \E b \in NoiseBytes : ReadNoise(b)
    \/ log = <<>> /\ ReceiveMessage(OutVars)
    \/ log = <<>> /\ CobsDecode

SpecDecode == InitDecode /\ [][NextDecode]_vars

-----------------------------------------------------------------------------
(* SpecSize: the size checks of send_message and receive_message, on     *)
(* buffers that hold bytes and with output variables that hold values.   *)

SizePayloads == {<<255>>}

\* the caller's output variables before a receive_message call: a version,
\* a command and a destination of n bytes that all hold 9
UsedOut(n) == [version |-> 9, command |-> 9, data |-> [i \in 1..n |-> 9]]

NextSize ==
    \/ \E data \in SizePayloads \cup BoundaryPayloads(cap) :
           /\ ingested = 0
           /\ Len(frames) < MaxFrames
           /\ SendMessage(199, 133, data)
    \/ Transmit
    \/ \E b \in {0, 255} : frames = <<>> /\ tx.status = "None" /\ ReadNoise(b)
    \/ \E n \in DestSizes(cap) : log = <<>> /\ ReceiveMessage(UsedOut(n))

SpecSize == InitCodec /\ [][NextSize]_vars

-----------------------------------------------------------------------------
(* SpecCobs: the byte stuffer of the ring buffer applied to a message,   *)
(* then the decoder, then the removal of the comma, for every capacity   *)
(* the trait is implemented for.                                         *)

CobsCapacities == {8, 16, 32, 64, 128}

\* messages of n bytes: all zero, every second byte zero, no zero, and
\* zero at both ends only
LongMessages(n) ==
    {[i \in 1..n |-> IF i % m = 0 THEN 0 ELSE 255] : m \in {1, 2, n + 1}}
        \cup {[i \in 1..n |-> IF i = 1 \/ i = n THEN 0 ELSE 1]}

\* short messages of every content, and long ones around the largest
\* message a buffer of capacity c can encode
CobsMessages(c) ==
    (ShortPayloads \ {<<>>})
        \cup UNION {LongMessages(n) : n \in {c - 3, c - 2, c - 1, c}}

\* physical positions of the front of the buffer
Heads == {0, 3}

InitCobs ==
    \E c \in CobsCapacities, checks \in BOOLEAN, h \in Heads :
        \E msg \in CobsMessages(c) :
            /\ InitLink(c, FALSE, checks, 0)
            /\ q = [xs |-> msg, head |-> h]
            /\ q_orig = q
            /\ q_call = NoQCall
            /\ vec = q.xs
            /\ vec_orig = vec
            /\ vec_call = NoQCall
            /\ InitQueues
            /\ InitClient("Eight")
            /\ InitUnits

NextCobs ==
    \/ QCobsEncode
    \/ QCobsDecode
    \/ QPopBack

SpecCobs == InitCobs /\ [][NextCobs]_vars

\* the same message given to the ring buffer and to a vector, each encoded
\* and then decoded
NextVariants ==
    \/ QCobsEncode
    \/ QCobsDecode
    \/ VecCobsEncode
    \/ VecCobsDecode

SpecVariants == InitCobs /\ [][NextVariants]_vars

-----------------------------------------------------------------------------
(* SpecRouter: message_router on decoded messages of every command class *)
(* and payload length, while the stream thread runs and a read_reg call  *)
(* waits, is served or gives up.                                         *)

RouterCommands == {0, 1, 2, 3, 127, 128, 255}

RouterPayloads == {<<>>, <<1>>, <<0, 42>>, <<0, 42, 7>>, <<0, 42, 0, 0, 0, 7>>}

InitRouter == \E checks \in BOOLEAN : InitState(16, FALSE, checks, 11)

NextRouter ==
    \/ \E command \in RouterCommands, data \in RouterPayloads :
           Route(command, data)
    \/ StreamRecv
    \/ call.pc = "idle" /\ CallReadReg(42)
    \/ ReadRegRecv
    \/ CallTimeout

SpecRouter == InitRouter /\ [][NextRouter]_vars

-----------------------------------------------------------------------------
(* SpecStream: streaming messages of payloads of every length up to four *)
(* routed to the stream thread, which unpacks them.                      *)

\* routed commands: text, one 20-bit word (0x85), the highest command
StreamCommands == {128, 133, 255}

StreamPayloads == {<<>>, <<7>>, <<1, 2>>, <<1, 2, 3>>, <<1, 2, 3, 4>>, Zeros(4)}

NextStream ==
    \/ \E command \in StreamCommands, data \in StreamPayloads :
           Route(command, data)
    \/ StreamRecv

SpecStream == InitRouter /\ [][NextStream]_vars

-----------------------------------------------------------------------------
(* SpecPack: the pack and unpack functions of packers.rs and unpack_tx   *)
(* of hostreceiver.rs, each called on register numbers and values at the *)
(* ends and in the middle of their types, on destination and source      *)
(* slices shorter than, as long as and longer than every layout, and on  *)
(* command bytes of every word size.                                     *)

\* u16 register numbers: both bytes zero, low byte only, both bytes, all ones
PackRegisters == {0, 42, 258, 65535}

\* u8 register values
PackValues8 == {0, 7, 255}

\* u32 register values below 2^31: one byte, two bytes, four different
\* bytes (0x01020304), the largest
PackValues32 == {0, 7, 300, 16909060, 2147483647}

\* the values the pack function named op takes
PackValues(op) ==
    IF op \in {"dev_read_reg32_pack", "host_write_reg32_pack"} THEN PackValues32
    ELSE IF op \in {"dev_read_reg8_pack", "host_write_reg8_pack"} THEN PackValues8
    ELSE {0}

\* destination slices of 0..7 bytes, each byte 0xAA before the call
PackDests == {[i \in 1..n |-> 170] : n \in 0..7}

\* source slices of 0..7 bytes
UnpackSources ==
    {SubSeq(full, 1, n) : n \in 0..7,
                          full \in {<<0, 42, 7, 1, 2, 3, 4>>, <<1, 2, 3, 4, 5, 6, 7>>,
                                    <<255, 255, 255, 255, 255, 255, 255>>}}

\* command bytes with n_per_sample_word = 1 (8..15), with 0 (4) and with 16
UnpackCommands == 8..15 \cup {4, 128, 133}

InitPack == InitRouter

NextPack ==
    \/ \E op \in PackOps, reg_num \in PackRegisters, dest \in PackDests :
       \E reg_val \in PackValues(op) :
           Pack(op, reg_num, reg_val, dest)
    \/ \E op \in UnpackOps : UnpackPacked(op)
    \/ \E op \in UnpackOps, data \in UnpackSources : Unpack(op, data)
    \/ \E command \in UnpackCommands, data \in StreamPayloads :
           UnpackStream(command, data)
    \/ \E command \in UnpackCommands, data \in StreamPayloads :
           UnpackTx(command, data)

SpecPack == InitPack /\ [][NextPack]_vars

-----------------------------------------------------------------------------
(* SpecApp: one register call of the client while the device answers and *)
(* streams, the receiver thread decodes and routes, and the stream       *)
(* thread drains the streaming queue.                                    *)

RegisterBitWidths == {"Eight", "ThirtyTwo"}

AppRegisters == {0, 42}

AppValues == {7, 300}

\* what the device sends: read responses and acknowledgements for the
\* registers of AppRegisters (8-bit value 7), while a call of that kind
\* waits, and 16-bit streaming samples at any time
ReadResponses == {<<1, <<0, r, 7>>>> : r \in AppRegisters}

WriteAcks == {<<2, <<0, r>>>> : r \in AppRegisters}

StreamFrames == {<<133, <<1, 2>>>>}

DeviceMessages ==
    StreamFrames
    \cup (IF call.pc = "waiting" /\ call.op = "read_reg" THEN ReadResponses ELSE {})
    \cup (IF call.pc = "waiting" /\ call.op = "write_reg" THEN WriteAcks ELSE {})

\* the device puts the valid frame of message m on the line
DeviceSend(m) ==
    \E good \in {GoodCrc(0, m[1], m[2])} :
        Forge(0, m[1], m[2], good[1], good[2])

InitApp ==
    \E checks \in BOOLEAN, width \in RegisterBitWidths :
        /\ InitLink(16, FALSE, checks, 11)
        /\ InitStuffer
        /\ InitQueues
        /\ InitClient(width)
        /\ InitUnits

NextApp ==
    \/ \E r \in AppRegisters : call.pc = "idle" /\ CallReadReg(r)
    \/ \E r \in AppRegisters, v \in AppValues :
           call.pc = "idle" /\ CallWriteReg(r, v)
    \/ \E m \in DeviceMessages : wire = <<>> /\ DeviceSend(m)
    \/ Ingest(Len(wire))
    \/ ReceiverLoop(TRUE)
    \/ ReadRegRecv
    \/ WriteRegRecv
    \/ CallTimeout
    \/ CallDisconnected
    \/ StreamRecv
    \/ StreamDisconnected

SpecApp == InitApp /\ [][NextApp]_vars

-----------------------------------------------------------------------------
(* SpecCall: the sending half of the register calls of a client of       *)
(* either width, for register numbers with and without a high byte and   *)
(* values of one, two and four bytes; a call that waits ends in its      *)
(* timeout, a call that has returned an error is followed by the next.   *)

CallValues == {7, 300, 16909060}

NextCall ==
    \/ \E r \in PackRegisters : CallReadReg(r)
    \/ \E r \in PackRegisters, v \in CallValues : CallWriteReg(r, v)
    \/ CallTimeout

SpecCall == InitApp /\ [][NextCall]_vars

-----------------------------------------------------------------------------
(* SpecRing: push_back_rand called on an empty ring buffer of each       *)
(* capacity, with one byte, a buffer full of bytes and one more than     *)
(* that, all of them drawn or all of them extra zeros.                   *)

PushSizes(c) == {1, c, c + 1}

ExtraZeroPercents == {0, 100}

InitRing ==
    \E c \in CobsCapacities :
        /\ InitLink(c, FALSE, FALSE, 0)
        /\ InitStuffer
        /\ InitQueues
        /\ InitClient("Eight")
        /\ InitUnits

NextRing ==
    \E n \in PushSizes(cap), perc_extra_zero \in ExtraZeroPercents :
        PushBackRand(n, perc_extra_zero)

SpecRing == InitRing /\ [][NextRing]_vars

-----------------------------------------------------------------------------
(* SpecReceiver: the receiver thread on a line that carries frames with  *)
(* right and with wrong checksums, read whole or in chunks.              *)

ReceiverCommands == {1, 133}

ReceiverPayloads == {<<0, 0, 7>>}

NextReceiver ==
    \/ \E command \in ReceiverCommands, data \in ReceiverPayloads, dh \in {0, 1} :
           LET good == GoodCrc(0, command, data)
           IN  /\ wire = <<>>
               /\ Forge(0, command, data, (good[1] + dh) % 256, good[2])
    \/ \E k \in ChunkSizes \cup {Len(wire)} : Ingest(k)
    \/ ReceiverLoop(TRUE)

SpecReceiver == Init /\ [][NextReceiver]_vars

-----------------------------------------------------------------------------
(* SpecCrc: compute_crc_bytes applied to buffers of the two capacities   *)
(* CRCExt is implemented for, whose content starts at several physical   *)
(* positions, so that it lies in one slice or wraps into the second.     *)

CrcCapacities == {16, 64}

\* physical positions of the front of a buffer of capacity c
CrcHeads(c) == {0, 5, c - 3}

\* contents of n bytes: a ramp, all zero, and all 255
CrcContents(n) ==
    {[i \in 1..n |-> (37 * i) % 256], [i \in 1..n |-> 0], [i \in 1..n |-> 255]}

CrcLengths == {1, 4, 9, 16}

InitCrc ==
    \E c \in CrcCapacities, n \in CrcLengths :
        \E h \in CrcHeads(c), content \in CrcContents(n) :
            /\ InitLink(c, FALSE, TRUE, 0)
            /\ q = [xs |-> content, head |-> h]
            /\ q_orig = q
            /\ q_call = NoQCall
            /\ vec = q.xs
            /\ vec_orig = vec
            /\ vec_call = NoQCall
            /\ InitQueues
            /\ InitClient("Eight")
            /\ InitUnits

NextCrc ==
    \E msg_len \in 0..len(q) : QComputeCrcBytes(msg_len)

SpecCrc == InitCrc /\ [][NextCrc]_vars

-----------------------------------------------------------------------------
(* SpecRedo: the slice byte stuffer of cobs_redo.rs applied to a slice   *)
(* whose first byte is the place of the overhead byte, then the decoder. *)

\* values of the first byte before the encoding
RedoPlaceholders == {0, 170}

\* slices: a first byte followed by a short message of every content, or
\* by a long one around the largest length the offsets can express
RedoSlices ==
    {<<p>> \o d : p \in RedoPlaceholders,
                  d \in ShortPayloads
                        \cup UNION {LongMessages(n) : n \in {253, 254, 255}}}

InitRedo ==
    \E slice \in RedoSlices :
        /\ InitLink(16, FALSE, TRUE, 0)
        /\ q = EmptyBuf
        /\ q_orig = EmptyBuf
        /\ q_call = NoQCall
        /\ vec = slice
        /\ vec_orig = slice
        /\ vec_call = NoQCall
        /\ InitQueues
        /\ InitClient("Eight")
        /\ InitUnits

NextRedo ==
    \/ RedoCobsEncode
    \/ RedoCobsDecode

SpecRedo == InitRedo /\ [][NextRedo]_vars

-----------------------------------------------------------------------------
(* SpecWait: one register call and a device that keeps sending, without  *)
(* a record of the past.  The client thread is scheduled: recv_timeout   *)
(* returns an entry that is waiting, and returns Timeout or Disconnected *)
(* when the queue stays empty.  The device sends when it likes, and      *)
(* nothing is assumed about the pace of the receiver thread.             *)

\* the bytes of the valid frame of message m
FrameBytes(m) ==
    vec_cobs_encode(<<m[1]>> \o m[2] \o GoodCrc(0, m[1], m[2])).v

\* what one read of the line brings: the frame of a response or of an
\* acknowledgement for register 0, or two frames of a response
ArrivalChunks ==
    {FrameBytes(<<1, <<0, 0, 7>>>>), FrameBytes(<<2, <<0, 0>>>>),
     FrameBytes(<<1, <<0, 0, 7>>>>) \o FrameBytes(<<1, <<0, 0, 7>>>>)}

\* the line is read when the ring buffer has room for a frame
RoomForFrame == Len(inbuf.xs) <= 9

NextWait ==
    \/ \E r \in AppRegisters : call.pc = "idle" /\ CallReadReg(r)
    \/ \E r \in AppRegisters : call.pc = "idle" /\ CallWriteReg(r, 7)
    \/ \E bytes \in ArrivalChunks :
           /\ Len(rx_reg_read) + Len(rx_reg_write) < MaxQueued
           /\ RoomForFrame
           /\ Arrive(bytes)
    \/ ReceiverLoop(FALSE)
    \/ ReadRegRecv
    \/ WriteRegRecv
    \/ CallTimeout
    \/ CallDisconnected

SpecWait ==
    /\ InitApp
    /\ [][NextWait]_vars
    /\ WF_vars(ReadRegRecv)
    /\ WF_vars(WriteRegRecv)
    /\ WF_vars(CallTimeout)
    /\ WF_vars(CallDisconnected)

-----------------------------------------------------------------------------
(* Properties *)

\* log entry e is the successful decoding of frame f
Decoded(e, f) ==
    /\ e.status = "Ok"
    /\ e.ret = Len(f.data)
    /\ e.command = f.command
    /\ e.data = f.data
    /\ versioned => e.version = f.version

\* frame f is what the protocol puts on the line for its header and payload:
\* the message and the two bytes of its CRC, high byte first, COBS-encoded
ValidFrame(f) ==
    f.bytes = vec_cobs_encode(Message(f.version, f.command, f.data)
                              \o GoodCrc(f.version, f.command, f.data)).v

\* the first receive_message call of the run found exactly frame f in the
\* buffer
FirstReceiveOf(f) ==
    /\ Len(log) >= 1
    /\ log[1].op = "receive_message"
    /\ log[1].before = f.bytes

\* C1: unversioned codec, capacities 16 and 64: the bytes send_message
\* leaves, placed in an empty ring buffer, are decoded by receive_message
\* (destination of at least capacity-5 bytes) to Ok(len(data)) with the same
\* command and payload.
C1_RoundTripUnversioned ==
    (/\ ~versioned
     /\ Len(frames) = 1
     /\ frames[1].src = "send_message"
     /\ FirstReceiveOf(frames[1])
     /\ log[1].dest >= cap - 5)
    => Decoded(log[1], frames[1])

C1_Witness ==
    /\ ~versioned
    /\ cap = 64
    /\ Len(frames) = 1
    /\ frames[1].src = "send_message"
    /\ Len(frames[1].data) = 59
    /\ FirstReceiveOf(frames[1])
    /\ log[1].status = "Ok"
    /\ log[1].data = frames[1].data

\* C2: versioned codec, capacities 16 and 64: the bytes send_message leaves,
\* placed in an empty ring buffer, are decoded by receive_message (with a
\* destination that passes its size check) to Ok(len(data)) with the same
\* version, command and payload.
C2_RoundTripVersioned ==
    (/\ versioned
     /\ Len(frames) = 1
     /\ frames[1].src = "send_message"
     /\ FirstReceiveOf(frames[1])
     /\ log[1].status # "SliceTooSmall")
    => Decoded(log[1], frames[1])

\* C3: two valid frames back to back in the inbound buffer are returned by
\* successive receive_message calls, the first frame first, the second
\* next; none is lost, reordered or turned into an abort.
C3_BackToBack ==
    (/\ Len(frames) = 2
     /\ ValidFrame(frames[1])
     /\ ValidFrame(frames[2])
     /\ Len(log) >= 2
     /\ log[1].before = frames[1].bytes \o frames[2].bytes)
    => /\ Decoded(log[1], frames[1])
       /\ Decoded(log[2], frames[2])

\* C4: after receive_message has failed on one bad frame, the receiver
\* keeps running, and a valid frame that arrives afterwards is decoded.
C4_RecoversAfterBadFrame ==
    (/\ Len(frames) = 2
     /\ ~ValidFrame(frames[1])
     /\ ValidFrame(frames[2])
     /\ Len(log) = 2
     /\ log[1].before = frames[1].bytes
     /\ log[1].status # "Ok"
     /\ log[2].ingested = Len(frames[1].bytes) + Len(frames[2].bytes))
    => /\ alive
       /\ Decoded(log[2], frames[2])

\* C5: a valid frame that arrives in two chunks, with a failing
\* receive_message between them, is decoded by the first receive_message
\* call made after its last byte has arrived.
C5_ChunkedArrival ==
    (/\ Len(frames) = 1
     /\ ValidFrame(frames[1])
     /\ Len(log) = 2
     /\ log[1].ingested > 0
     /\ log[1].ingested < Len(frames[1].bytes)
     /\ log[1].status # "Ok"
     /\ log[2].ingested = Len(frames[1].bytes))
    => Decoded(log[2], frames[1])

\* C6: whatever the ring buffer holds, cobs_decode, compute_crc_bytes as
\* the codec calls it, and receive_message return Ok or a typed error: no
\* call ends in an arithmetic underflow or an out-of-range slice access.
C6_NeverAborts ==
    \A i \in 1..Len(log) : log[i].status # "Panic"

\* C7: unversioned receive_message on a buffer of 0..4 bytes returns
\* COBSTooLittleData or COBSDecodeNoCommaFound; never Ok, never an abort.
C7_TooShortIsFramingError ==
    \A i \in 1..Len(log) :
        (/\ ~versioned
         /\ log[i].op = "receive_message"
         /\ Len(log[i].before) <= 4
         /\ log[i].dest >= cap - 5)
        => log[i].status \in {"COBSTooLittleData", "COBSDecodeNoCommaFound"}

\* C8: unversioned receive_message on a well-framed message returns Ok
\* exactly when both received checksum bytes equal the high and the low
\* byte of the CRC over command+payload, and CRCMismatch when one differs.
C8_OkIffChecksumMatches ==
    (/\ ~versioned
     /\ Len(frames) = 1
     /\ frames[1].src = "peer"
     /\ FirstReceiveOf(frames[1])
     /\ log[1].dest >= cap - 5)
    => LET f == frames[1]
           same == <<f.high, f.low>> = GoodCrc(f.version, f.command, f.data)
       IN  /\ same => Decoded(log[1], f)
           /\ ~same => log[1].status = "CRCMismatch"

C8_Witness ==
    /\ ~versioned
    /\ Len(frames) = 1
    /\ frames[1].src = "peer"
    /\ FirstReceiveOf(frames[1])
    /\ frames[1].high = GoodCrc(0, frames[1].command, frames[1].data)[1]
    /\ frames[1].low # GoodCrc(0, frames[1].command, frames[1].data)[2]
    /\ log[1].status = "CRCMismatch"

\* C9: versioned receive_message never returns Ok for a well-framed message
\* whose received checksum bytes differ from the CRC over
\* version+command+payload.
C9_WrongChecksumRejected ==
    (/\ versioned
     /\ Len(frames) = 1
     /\ frames[1].src = "peer"
     /\ FirstReceiveOf(frames[1])
     /\ <<frames[1].high, frames[1].low>>
            # GoodCrc(frames[1].version, frames[1].command, frames[1].data))
    => log[1].status # "Ok"

\* C10: send_message succeeds for a payload of exactly the maximum length
\* (capacity-5 unversioned, capacity-6 versioned) and returns SliceTooBig
\* for a payload one byte longer, for capacities 16 and 64.
C10_CapacityBoundary ==
    LET most == IF versioned THEN cap - 6 ELSE cap - 5
    IN  /\ (tx.status # "None" /\ Len(tx.data) = most) => tx.status = "Ok"
        /\ (tx.status # "None" /\ Len(tx.data) = most + 1)
               => tx.status = "SliceTooBig"

C10_Witness ==
    /\ cap = 64
    /\ ~versioned
    /\ tx.status = "Ok"
    /\ Len(tx.data) = 59
    /\ Len(outbuf.xs) = 64

\* C11: when send_message fails with SliceTooBig, or receive_message with
\* SliceTooSmall, the ring buffer and the caller's output variables are
\* exactly as they were before the call.
C11_SizeCheckBeforeMutation ==
    /\ tx.status = "SliceTooBig" => outbuf = tx.before
    /\ (Len(log) = 1 /\ log[1].status = "SliceTooSmall")
           => /\ inbuf.xs = log[1].before
              /\ rx.version = log[1].out.version
              /\ rx.command = log[1].out.command
              /\ rx.data = log[1].out.data

C11_Witness ==
    /\ tx.status = "SliceTooBig"
    /\ Len(tx.before.xs) > 0
    /\ outbuf = tx.before

\* C12: after a successful ring-buffer cobs_encode of a message of n bytes,
\* 1 <= n <= capacity-2, the buffer has n+2 bytes, its last byte is zero
\* and no other byte is zero.
C12_EncodedHasOneZero ==
    (/\ q_call.op = "cobs_encode"
     /\ q_call.status = "Ok"
     /\ Len(q_orig.xs) \in 1..(cap - 2))
    => /\ Len(q.xs) = Len(q_orig.xs) + 2
       /\ q.xs[Len(q.xs)] = 0
       /\ \A i \in 1..(Len(q.xs) - 1) : q.xs[i] # 0

C12_Witness ==
    /\ cap = 128
    /\ q_call.op = "cobs_encode"
    /\ q_call.status = "Ok"
    /\ Len(q_orig.xs) = 126
    /\ q_orig.xs[2] = 0
    /\ Len(q.xs) = 128

\* C13: for capacities 8, 16, 32, 64 and 128 and every message of
\* 1..capacity-2 bytes, cobs_encode, then cobs_decode, then the removal of
\* the last byte all succeed and leave the buffer equal to the message.
C13_EncodeDecodeBack ==
    Len(q_orig.xs) \in 1..(cap - 2)
    => /\ q_call.op \in {"cobs_encode", "cobs_decode"} => q_call.status = "Ok"
       /\ q_call.op = "pop_back" => q.xs = q_orig.xs

C13_Witness ==
    /\ cap = 8
    /\ q_call.op = "pop_back"
    /\ Len(q_orig.xs) = 6
    /\ q_orig.xs[1] = 0
    /\ q_orig.xs[6] = 0
    /\ q.xs = q_orig.xs

\* the step is a call of message_router
RouterStep == routed'.n # routed.n

\* the step leaves the three queues as they were
NothingQueued ==
    /\ rx_reg_read' = rx_reg_read
    /\ rx_reg_write' = rx_reg_write
    /\ rx_stream' = rx_stream

\* the step adds one (register, value) entry to the read-response queue
\* and nothing else
QueuedRead ==
    /\ Len(rx_reg_read') = Len(rx_reg_read) + 1
    /\ SubSeq(rx_reg_read', 1, Len(rx_reg_read)) = rx_reg_read
    /\ Len(rx_reg_read'[Len(rx_reg_read')]) = 2
    /\ rx_reg_write' = rx_reg_write
    /\ rx_stream' = rx_stream

\* the step adds one register entry to the write-acknowledgement queue and
\* nothing else
QueuedWriteAck ==
    /\ Len(rx_reg_write') = Len(rx_reg_write) + 1
    /\ SubSeq(rx_reg_write', 1, Len(rx_reg_write)) = rx_reg_write
    /\ rx_reg_write'[Len(rx_reg_write')] \in 0..65535
    /\ rx_reg_read' = rx_reg_read
    /\ rx_stream' = rx_stream

\* the step adds (command, copy of the payload) to the streaming queue and
\* nothing else
QueuedStream ==
    /\ rx_stream' = Append(rx_stream, <<routed'.command, routed'.data>>)
    /\ rx_reg_read' = rx_reg_read
    /\ rx_reg_write' = rx_reg_write

\* C14 as stated: message_router puts each message on at most one queue,
\* chosen by its command alone: command 1 adds one entry to the
\* read-response queue, command 2 one to the write-acknowledgement queue,
\* commands 0x80..0xFF one (command, payload) entry to the streaming queue,
\* and commands 0 and 3..0x7F add nothing and return Ok.
C14_RouterByCommand ==
    [][RouterStep =>
          /\ routed'.command = 1 => QueuedRead
          /\ routed'.command = 2 => QueuedWriteAck
          /\ routed'.command \in 128..255 => QueuedStream
          /\ routed'.command \in {0} \cup 3..127
                 => NothingQueued /\ routed'.status = "Ok"]_vars

\* C14, amended: message_router puts each message on at most one queue.
\* Command 1 adds one entry to the read-response queue when the payload has
\* 3 or 6 bytes and the client still holds the receiving end; command 2
\* adds one entry to the write-acknowledgement queue when the payload has at
\* least 2 bytes and the client still holds the receiving end; commands
\* 0x80..0xFF add (command, payload) to the streaming queue while the stream
\* thread runs.  In these cases it returns Ok; otherwise commands 1, 2 and
\* 0x80..0xFF add nothing and return an error.  Commands 0 and 3..0x7F add
\* nothing and return Ok.
C14_RouterByCommandAndPayload ==
    [][RouterStep =>
          LET command == routed'.command
              n == Len(routed'.data)
              client == call.pc # "panicked"
              ok == routed'.status = "Ok"
          IN  /\ command = 1 =>
                     IF n \in {3, 6} /\ client THEN QueuedRead /\ ok
                     ELSE NothingQueued /\ ~ok
              /\ command = 2 =>
                     IF n >= 2 /\ client THEN QueuedWriteAck /\ ok
                     ELSE NothingQueued /\ ~ok
              /\ command \in 128..255 =>
                     IF stream_alive THEN QueuedStream /\ ok
                     ELSE NothingQueued /\ ~ok
              /\ command \in {0} \cup 3..127 => NothingQueued /\ ok]_vars

\* a read response was queued, then a read response of 2 bytes was refused
C14_Witness ==
    /\ routed.n = 2
    /\ routed.command = 1
    /\ routed.data = <<0, 42>>
    /\ routed.status = "SliceTooSmall"
    /\ Len(rx_reg_read) = 1

\* the run has one frame, the valid frame of message <<command, data>>,
\* and the receiver has decoded it
OnlyFrameReceived(command, data) ==
    /\ Len(frames) = 1
    /\ ValidFrame(frames[1])
    /\ frames[1].command = command
    /\ frames[1].data = data
    /\ \E i \in 1..Len(log) : Decoded(log[i], frames[1])

\* C15: for every register r and 8-bit value v: once read_reg(r) has sent
\* its request, the read response with payload {r_hi, r_lo, v} has been
\* received, and read_reg has taken the entry from the read-response
\* queue, read_reg has returned Ok(v).
C15_ReadRegReturnsValue ==
    \A r \in AppRegisters, v \in 0..255 :
        (/\ call.op = "read_reg"
         /\ call.reg_num = r
         /\ OnlyFrameReceived(1, <<r \div 256, r % 256, v>>)
         /\ call.last # <<>>)
        => /\ call.pc = "returned"
           /\ call.status = "Ok"
           /\ call.ret = v

\* C16: for every register r: once write_reg(r, v) has sent its request,
\* the acknowledgement with payload {r_hi, r_lo} has been received, and
\* write_reg has taken the entry from the write-acknowledgement queue,
\* write_reg has returned Ok.
C16_WriteRegReturnsOk ==
    \A r \in AppRegisters :
        (/\ call.op = "write_reg"
         /\ call.reg_num = r
         /\ OnlyFrameReceived(2, <<r \div 256, r % 256>>)
         /\ call.last # <<>>)
        => /\ call.pc = "returned"
           /\ call.status = "Ok"

\* the step is one turn of the wait loop of the call in progress
WaitStep == call.pc = "waiting" /\ call' # call

\* C17: in its wait loop a call takes the entry at the head of its own
\* queue and of no other; it returns exactly when the register of that
\* entry equals the register of the call: write_reg returns Ok, read_reg
\* returns Ok(v) for the pair (r, v) just dequeued; an entry that does not
\* match is gone from the queue and the call keeps waiting.
C17_ReturnsOnlyOnMatch ==
    [][(WaitStep /\ call'.status \notin {"Timeout", "Disconnected"}) =>
          IF call.op = "write_reg"
          THEN /\ rx_reg_write # <<>>
               /\ rx_reg_write' = Tail(rx_reg_write)
               /\ rx_reg_read' = rx_reg_read
               /\ rx_stream' = rx_stream
               /\ call'.last = <<Head(rx_reg_write)>>
               /\ IF Head(rx_reg_write) = call.reg_num
                  THEN call'.pc = "returned" /\ call'.status = "Ok"
                  ELSE call'.pc = "waiting"
          ELSE /\ rx_reg_read # <<>>
               /\ rx_reg_read' = Tail(rx_reg_read)
               /\ rx_reg_write' = rx_reg_write
               /\ rx_stream' = rx_stream
               /\ call'.last = Head(rx_reg_read)
               /\ IF Head(rx_reg_read)[1] = call.reg_num
                  THEN /\ call'.pc = "returned"
                       /\ call'.status = "Ok"
                       /\ call'.ret = Head(rx_reg_read)[2]
                  ELSE call'.pc = "waiting"]_vars

\* read_reg(42) has dropped the response (0, 7) and waits on the empty
\* queue
C17_Witness ==
    /\ call.op = "read_reg"
    /\ call.reg_num = 42
    /\ call.pc = "waiting"
    /\ call.last = <<0, 7>>
    /\ rx_reg_read = <<>>

\* C19: a call that waits on an empty queue can always take the step that
\* ends the wait, and the step it takes then ends the call in a fatal stop:
\* by Timeout while the receiver thread holds the sending end, by
\* Disconnected when the receiver thread is gone; nothing is returned to the
\* caller.
C19_FatalStopOnEmptyQueue ==
    /\ [](call.pc = "waiting" /\ CallQueue = <<>>
             => ENABLED (CallTimeout \/ CallDisconnected))
    /\ [][(WaitStep /\ CallQueue = <<>>) =>
              /\ call'.pc = "panicked"
              /\ call'.status = IF alive THEN "Timeout" ELSE "Disconnected"
              /\ call'.ret = call.ret
              /\ UNCHANGED queuevars]_vars

\* write_reg has ended in the fatal stop because the receiver thread was
\* gone
C19_Witness ==
    /\ call.op = "write_reg"
    /\ call.pc = "panicked"
    /\ call.status = "Disconnected"
    /\ ~alive

\* the frames of the run that are not streaming frames
RegisterFrames == {i \in 1..Len(frames) : frames[i].command < 128}

\* a run with at most one frame, valid and not a streaming frame
C20_Baseline ==
    (Len(frames) <= 1 /\ \A i \in 1..Len(frames) : ValidFrame(frames[i]))
    => call.status # "Disconnected"

\* C20: a register call takes entries from its own queue only and never
\* from the streaming queue; only the stream thread takes entries from the
\* streaming queue, and it touches neither the register queues nor the
\* call; and streaming frames on the line do not change how a call ends:
\* as without them, the call does not lose the receiver thread (end by
\* Disconnected) when every frame on the line is valid and at most one of
\* them is not a streaming frame.
C20_StreamingIndependent ==
    /\ [][WaitStep => rx_stream' = rx_stream /\ UNCHANGED streamvars]_vars
    /\ [][Len(rx_stream') < Len(rx_stream) =>
              /\ rx_stream' = Tail(rx_stream)
              /\ stream_alive
              /\ stream_last'.command = Head(rx_stream)[1]
              /\ stream_last'.data = Head(rx_stream)[2]
              /\ call' = call
              /\ rx_reg_read' = rx_reg_read
              /\ rx_reg_write' = rx_reg_write]_vars
    /\ []((/\ \A i \in 1..Len(frames) : ValidFrame(frames[i])
           /\ Cardinality(RegisterFrames) <= 1)
          => call.status # "Disconnected")

-----------------------------------------------------------------------------
(* Streaming data *)

\* C21: once the streaming message of command 0x85 with payload {0,0,0,0}
\* is routed it is on the streaming queue and on neither register queue,
\* and once the stream thread has taken it, unpack_stream has returned
\* Ok([0,0,0,0]) and the thread is still running.
C21_StreamFrameUnpacked ==
    /\ (/\ routed.n = 1
        /\ routed.command = 133
        /\ routed.data = Zeros(4)
        /\ stream_last.status = "None")
       => /\ rx_stream = << <<133, Zeros(4)>> >>
          /\ rx_reg_read = <<>>
          /\ rx_reg_write = <<>>
    /\ (/\ stream_last.status # "None"
        /\ stream_last.command = 133
        /\ stream_last.data = Zeros(4))
       => /\ stream_last.status = "Ok"
          /\ stream_last.samples = Zeros(4)
          /\ stream_alive

\* the big-endian value of two or of four bytes
BigEndian(bytes) ==
    IF Len(bytes) = 2 THEN bytes[1] * 256 + bytes[2]
    ELSE bytes[1] * 16777216 + bytes[2] * 65536 + bytes[3] * 256 + bytes[4]

\* C22: for a command with one word per sample, unpack_stream and unpack_tx
\* return the samples in payload order, each assembled big-endian: sample
\* k of a payload of 16-bit words is b0 * 256 + b1 of bytes 2k-1 and 2k, and
\* sample k of a payload of 32-bit words is b0 * 2^24 + b1 * 2^16 + b2 * 2^8
\* + b3 of bytes 4k-3 .. 4k.
C22_BigEndianSamples ==
    \A w \in {2, 4} :
        (/\ pack_call.op \in {"unpack_stream", "unpack_tx"}
         /\ n_per_sample_word(pack_call.command) = 1
         /\ word_size_bits(pack_call.command) = 8 * w
         /\ Len(pack_call.src) % w = 0)
        => /\ pack_call.status = "Ok"
           /\ Len(pack_call.out) = Len(pack_call.src) \div w
           /\ \A k \in 1..Len(pack_call.out) :
                  pack_call.out[k] =
                      BigEndian(SubSeq(pack_call.src, w * (k - 1) + 1, w * k))

-----------------------------------------------------------------------------
(* Register packers *)

\* an unpack function of the given name has been called on the bytes
\* written by a pack function of the given name
Unpacked(pack_op, unpack_op) ==
    /\ pack_call.op = pack_op
    /\ pack_call.status = "Ok"
    /\ pack_call.unp.op = unpack_op

\* C23: for every register number r, unpacking packed bytes returns r:
\* host_write_reg_unpack of the bytes of dev_write_reg_pack(r), and
\* host_read_reg_unpack of the bytes of dev_read_reg8_pack(r, v) and of
\* dev_read_reg32_pack(r, v), return Ok with register number r.
C23_RegisterRoundTrip ==
    (\/ Unpacked("dev_write_reg_pack", "host_write_reg_unpack")
     \/ Unpacked("dev_read_reg8_pack", "host_read_reg_unpack")
     \/ Unpacked("dev_read_reg32_pack", "host_read_reg_unpack"))
    => /\ pack_call.unp.status = "Ok"
       /\ pack_call.unp.reg_num = pack_call.reg_num

\* C24: host_read_reg_unpack recovers the value: of a 3-byte source it
\* returns the third byte, and of the 6 bytes of dev_read_reg32_pack(r, v)
\* it returns v.
C24_ValueRoundTrip ==
    /\ (/\ pack_call.unp.op = "host_read_reg_unpack"
        /\ Len(pack_call.src) = 3)
       => /\ pack_call.unp.status = "Ok"
          /\ pack_call.unp.reg_val = pack_call.src[3]
    /\ Unpacked("dev_read_reg32_pack", "host_read_reg_unpack")
       => /\ pack_call.unp.status = "Ok"
          /\ pack_call.unp.reg_val = pack_call.reg_val

\* the first bytes of the destination after the last pack call, and the
\* rest of it
Written(n) == SubSeq(pack_call.out, 1, n)

Beyond(n) == SubSeq(pack_call.out, n + 1, Len(pack_call.out))

\* the two bytes of the register number, most significant first
RegBytes == <<pack_call.reg_num \div 256, pack_call.reg_num % 256>>

\* C25: called on a destination that is long enough, host_read_reg_pack
\* writes {r>>8, r&0xFF} and returns 2, host_write_reg8_pack writes
\* {r>>8, r&0xFF, v} and returns 3, host_write_reg32_pack writes {r>>8,
\* r&0xFF, v>>24, (v>>16)&0xFF, (v>>8)&0xFF, v&0xFF} and returns 6; the
\* destination keeps its length and its bytes beyond the layout.
C25_PackLayouts ==
    LET v == pack_call.reg_val
        layout ==
            CASE pack_call.op = "host_read_reg_pack" -> RegBytes
              [] pack_call.op = "host_write_reg8_pack" -> RegBytes \o <<v>>
              [] pack_call.op = "host_write_reg32_pack" ->
                     RegBytes \o <<v \div 16777216, (v \div 65536) % 256,
                                   (v \div 256) % 256, v % 256>>
              [] OTHER -> <<>>
    IN  (/\ pack_call.op \in {"host_read_reg_pack", "host_write_reg8_pack",
                               "host_write_reg32_pack"}
         /\ Len(pack_call.dest) >= Len(layout))
        => /\ pack_call.status = "Ok"
           /\ pack_call.ret = Len(layout)
           /\ Written(Len(layout)) = layout
           /\ Beyond(Len(layout)) = SubSeq(pack_call.dest, Len(layout) + 1,
                                           Len(pack_call.dest))

\* host_write_reg32_pack(0x0102, 0x01020304) has written its six bytes at the
\* front of a destination of seven
C25_Witness ==
    /\ pack_call.op = "host_write_reg32_pack"
    /\ pack_call.reg_num = 258
    /\ pack_call.reg_val = 16909060
    /\ pack_call.ret = 6
    /\ pack_call.out = <<1, 2, 1, 2, 3, 4, 170>>

\* the number of bytes of the layout of a pack or unpack function
LayoutLen(op) ==
    IF op \in {"dev_write_reg_pack", "host_read_reg_pack", "dev_read_reg_unpack",
               "host_write_reg_unpack"} THEN 2
    ELSE IF op \in {"dev_read_reg8_pack", "host_write_reg8_pack",
                    "dev_write_reg8_unpack", "host_read_reg_unpack"} THEN 3
    ELSE 6

\* C26: a pack function called on a destination shorter than its layout
\* returns SliceTooSmall and leaves the destination as it was; an unpack
\* function called on a source shorter than its layout returns an error;
\* host_read_reg_unpack returns an error for every source whose length is
\* neither 3 nor 6.
C26_TooSmallIsError ==
    /\ (/\ pack_call.op \in PackOps
        /\ Len(pack_call.dest) < LayoutLen(pack_call.op))
       => /\ pack_call.status = "SliceTooSmall"
          /\ pack_call.out = pack_call.dest
    /\ (/\ pack_call.unp.op \in UnpackOps
        /\ Len(pack_call.src) < LayoutLen(pack_call.unp.op))
       => pack_call.unp.status # "Ok"
    /\ (/\ pack_call.unp.op = "host_read_reg_unpack"
        /\ Len(pack_call.src) \notin {3, 6})
       => pack_call.unp.status # "Ok"

\* host_read_reg_unpack has refused a source of seven bytes
C26_Witness ==
    /\ pack_call.unp.op = "host_read_reg_unpack"
    /\ Len(pack_call.src) = 7
    /\ pack_call.unp.status = "SliceTooSmall"

\* host_write_reg32_pack has refused a destination of five bytes and left
\* it as it was
C26_WitnessPack ==
    /\ pack_call.op = "host_write_reg32_pack"
    /\ Len(pack_call.dest) = 5
    /\ pack_call.status = "SliceTooSmall"
    /\ pack_call.out = pack_call.dest

-----------------------------------------------------------------------------
(* Frames on the line *)

\* the index of the first zero of msg after index i, or Len(msg) + 1
NextZero(msg, i) ==
    CHOOSE j \in (i + 1)..(Len(msg) + 1) :
        /\ j = Len(msg) + 1 \/ msg[j] = 0
        /\ \A k \in (i + 1)..(j - 1) : msg[k] # 0

\* the COBS encoding of a message of fewer than 254 bytes: a leading
\* code byte, every zero replaced by the distance to the next zero (or to
\* the end), and the terminating zero
CobsOf(msg) ==
    [k \in 1..(Len(msg) + 2) |->
        IF k = Len(msg) + 2 THEN 0
        ELSE IF k = 1 THEN NextZero(msg, 0)
        ELSE IF msg[k - 1] = 0 THEN NextZero(msg, k - 1) - (k - 1)
        ELSE msg[k - 1]]

\* the frame of an unversioned message: the COBS encoding of the command,
\* the data and the CRC of both, high byte first
FrameOf(command, data) ==
    LET crc == crc16dnp(<<command>> \o data)
    IN  CobsOf(<<command>> \o data \o <<(crc \div 256) % 256, crc % 256>>)

\* the payload the claim gives the request of a call
RequestPayload(op, width, r, v) ==
    LET reg == <<r \div 256, r % 256>>
    IN  IF op = "read_reg" THEN reg
        ELSE IF width = "Eight" THEN reg \o <<v>>
        ELSE reg \o <<v \div 16777216, (v \div 65536) % 256, (v \div 256) % 256,
                      v % 256>>

\* C27: a register call that starts waiting has written exactly one frame
\* to the serial line: read_reg(r) the frame of command 1 with payload
\* {r_hi, r_lo}, write_reg(r, v) the frame of command 2 with payload {r_hi,
\* r_lo, v} for a client of 8-bit width and {r_hi, r_lo, v as 4 big-endian
\* bytes} for a client of 32-bit width; no other step writes to the line.
C27_OneRequestFrame ==
    [][IF call'.pc = "waiting" /\ call.pc # "waiting"
       THEN serial_out' =
                serial_out \o FrameOf(IF call'.op = "read_reg" THEN 1 ELSE 2,
                                      RequestPayload(call'.op, regbitwidth,
                                                     call'.reg_num, call'.reg_val))
       ELSE serial_out' = serial_out]_vars

\* write_reg(0x0102, 0x01020304) of a client of 32-bit width is waiting and
\* the line holds its frame and nothing else
C27_Witness ==
    /\ regbitwidth = "ThirtyTwo"
    /\ call.op = "write_reg"
    /\ call.reg_num = 258
    /\ call.reg_val = 16909060
    /\ call.pc = "waiting"
    /\ serial_out = <<10, 2, 1, 2, 1, 2, 3, 4, 42, 155, 0>>

\* C30: after a successful unversioned send_message(command, data) the
\* buffer holds exactly the COBS encoding of the command, the data and the
\* CRC of both, high byte first, whatever it held before the call, and the
\* call has returned the length of the buffer, Len(data) + 5.
C30_SendLeavesFrame ==
    (tx.status = "Ok" /\ ~versioned)
    => /\ outbuf.xs = FrameOf(tx.command, tx.data)
       /\ tx.ret = Len(tx.data) + 5
       /\ tx.ret = Len(outbuf.xs)

\* send_message of eleven zeros has succeeded on a buffer that held the
\* frame of an earlier message
C30_Witness ==
    /\ ~versioned
    /\ cap = 16
    /\ tx.status = "Ok"
    /\ tx.data = Zeros(11)
    /\ Len(tx.before.xs) > 0
    /\ tx.before.xs # outbuf.xs
    /\ tx.ret = 16

-----------------------------------------------------------------------------
(* Order of the queues *)

\* a step takes a queue from old to new in queue order: it leaves the
\* queue alone, or the router adds its entry for the message it has just
\* routed behind all others, or a consumer takes the oldest entry
InOrder(old, new, class, entry_fits(_)) ==
    \/ new = old
    \/ /\ routed'.command \in class
       /\ Len(new) = Len(old) + 1
       /\ SubSeq(new, 1, Len(old)) = old
       /\ entry_fits(new[Len(new)])
    \/ /\ old # <<>>
       /\ new = Tail(old)

\* C28: in every step each of the three queues keeps the order in which
\* the receiver routed the messages of its class: an entry is only ever
\* added behind all entries of the queue, by the router and for the
\* message it has just decoded, and only ever taken from the front.
C28_PerClassFifo ==
    [][/\ InOrder(rx_reg_read, rx_reg_read', {1},
                  LAMBDA e : Len(routed'.data) = 3 => e[2] = routed'.data[3])
       /\ InOrder(rx_reg_write, rx_reg_write', {2}, LAMBDA e : e \in 0..65535)
       /\ InOrder(rx_stream, rx_stream', 128..255,
                  LAMBDA e : e = <<routed'.command, routed'.data>>)]_vars

\* the streaming queue holds two different entries, the one routed first in
\* front
C28_Witness ==
    /\ rx_stream = << <<128, <<1>> >>, <<255, <<>> >> >>
    /\ routed.command = 255
    /\ routed.n = 2

-----------------------------------------------------------------------------
(* Ring buffer *)

\* the last n elements of a sequence, or all of it
LastOf(xs, n) ==
    IF Len(xs) <= n THEN xs ELSE SubSeq(xs, Len(xs) - n + 1, Len(xs))

\* C29: whatever was pushed at the back of the ring buffer, its length
\* is at most its capacity, and once capacity + k bytes (k >= 0) were
\* pushed it holds exactly the last capacity bytes pushed, in push order
\* (before that, all bytes pushed).
C29_KeepsLastCapacityBytes ==
    /\ Len(q.xs) <= cap
    /\ q.xs = LastOf(Flatten(pushed), cap)

\* capacity + 2 bytes were pushed in three calls and the first two bytes
\* pushed are gone
C29_Witness ==
    /\ cap = 16
    /\ Len(pushed) = 3
    /\ Len(Flatten(pushed)) = cap + 2
    /\ Len(q.xs) = cap
    /\ q.xs[1] = 3
    /\ q.xs[cap] = 18

-----------------------------------------------------------------------------
(* Versioned codec *)

\* C31: a versioned receive_message called with a destination of exactly
\* capacity - 6 bytes, the largest payload send_message accepts, does not
\* return SliceTooSmall.
C31_DocumentedDestinationAccepted ==
    \A i \in 1..Len(log) :
        (versioned /\ Len(log[i].out.data) = cap - 6)
            => log[i].status # "SliceTooSmall"

\* C32: the versioned frame carries no checksum bytes: a successful
\* send_message(version, command, data) leaves exactly the COBS encoding of
\* [version, command, data...], and receive_message (destination of 12
\* bytes or more) on the COBS encoding of a message of n bytes returns
\* Ok(n - 2) with its first byte as version, its second as command and the
\* rest as data.
C32_NoChecksumInVersionedFrame ==
    /\ (versioned /\ tx.status = "Ok")
       => outbuf.xs = CobsOf(<<tx.version, tx.command>> \o tx.data)
    /\ (/\ versioned
        /\ Len(frames) = 1
        /\ frames[1].src = "peer"
        /\ FirstReceiveOf(frames[1])
        /\ log[1].dest >= cap - 4)
       => /\ log[1].status = "Ok"
          /\ log[1].ret = Len(frames[1].data) + 2
          /\ log[1].version = frames[1].version
          /\ log[1].command = frames[1].command
          /\ log[1].data = frames[1].data \o <<frames[1].high, frames[1].low>>

-----------------------------------------------------------------------------
(* Receiver thread *)

\* the step is a receive_message call of the receiver thread that is
\* recorded with the given result
Received(ok) ==
    /\ Len(log') = Len(log) + 1
    /\ (log'[Len(log')].status = "Ok") = ok

\* C33: a receive_message call of the receiver thread that returns an error
\* (CRCMismatch, a framing error) or panics adds no entry to any of the
\* three queues; the queues change only in a step in which receive_message
\* has returned Ok.
C33_OnlyOkFramesRouted ==
    [][/\ Received(FALSE) => NothingQueued
       /\ ~NothingQueued => Received(TRUE)]_vars

\* a frame with a wrong checksum was received in full and refused, and the
\* queues are empty
C33_Witness ==
    /\ Len(log) >= 1
    /\ log[1].status = "CRCMismatch"
    /\ log[1].before = frames[1].bytes
    /\ rx_reg_read = <<>>
    /\ rx_reg_write = <<>>
    /\ rx_stream = <<>>

-----------------------------------------------------------------------------
(* Byte stuffer: results of the ring-buffer decoder and encoder *)

\* the buffer under test held a message and cobs_decode has returned Ok on
\* its encoding
DecodedEncoding ==
    /\ q_call.op = "cobs_decode"
    /\ q_call.status = "Ok"

\* C34 as stated: on success cobs_decode returns the length of the message
\* counted with the terminating zero (message length + 1), removes only the
\* overhead byte and leaves the terminating zero.
C34_ReturnCountsComma ==
    DecodedEncoding
    => /\ q_call.ret = Len(q_orig.xs) + 1
       /\ q.xs = q_orig.xs \o <<0>>

\* C34 amended: on success on the encoding of a message of n bytes
\* cobs_decode returns n, the length without the overhead byte and without
\* the terminating zero, removes only the overhead byte and leaves the
\* terminating zero.
C34_ReturnIsMessageLength ==
    DecodedEncoding
    => /\ q_call.ret = Len(q_orig.xs)
       /\ q.xs = q_orig.xs \o <<0>>

\* a message of six bytes that starts and ends with a zero was decoded in
\* a buffer of capacity 8 whose content wraps
C34_Witness ==
    /\ DecodedEncoding
    /\ cap = 8
    /\ q.head = 3
    /\ Len(q_orig.xs) = 6
    /\ q_orig.xs[1] = 0
    /\ q_call.ret = 6
    /\ Len(q.xs) = 7

\* cobs_decode was called on its own on the receiver's buffer and has
\* returned one of its two errors
DecodeFailed ==
    /\ Len(log) = 1
    /\ log[1].op = "cobs_decode"
    /\ log[1].status \in {"COBSTooLittleData", "COBSDecodeNoCommaFound"}

\* C35: when the ring-buffer cobs_decode fails with COBSTooLittleData or
\* COBSDecodeNoCommaFound, the buffer holds the same bytes as before the
\* call.
C35_FailedDecodeKeepsBuffer ==
    DecodeFailed => inbuf.xs = log[1].before

\* C36: the ring-buffer cobs_encode returns an error exactly when the
\* buffer is empty (COBSTooLittleData) or holds more than capacity-2 bytes
\* (QueueTooFull), and a call that returns an error leaves the bytes of
\* the buffer as they were, a buffer of exactly capacity-1 bytes included.
C36_FailedEncodeKeepsBuffer ==
    q_call.op = "cobs_encode"
    => /\ (q_call.status = "COBSTooLittleData") = (Len(q_orig.xs) = 0)
       /\ (q_call.status = "QueueTooFull") = (Len(q_orig.xs) > cap - 2)
       /\ q_call.status \in {"Ok", "COBSTooLittleData", "QueueTooFull"}
       /\ q_call.status # "Ok" => q.xs = q_orig.xs

-----------------------------------------------------------------------------
(* Checksum unit *)

\* compute_crc_bytes has returned for a message length within the buffer
CrcComputed ==
    /\ q_call.op = "compute_crc_bytes"
    /\ q_call.msg_len <= Len(q.xs)

\* C37: compute_crc_bytes(msg_len) returns (crc >> 8, crc & 0xFF) of the
\* CRC-16/DNP of the first msg_len bytes of the buffer in logical order:
\* the result is that of the plain byte sequence, whether the bytes lie in
\* one physical slice or wrap into the second, and whatever bytes follow
\* the first msg_len.
C37_CrcOfLogicalPrefix ==
    CrcComputed
    => LET crc == crc16dnp(SubSeq(q.xs, 1, q_call.msg_len))
       IN  /\ q_call.status = "Ok"
           /\ q_call.ret = <<crc \div 256, crc % 256>>
           /\ q = q_orig

\* the checksum of the first six bytes of nine, of which the first three
\* lie at the end of the storage and the others at its start
C37_Witness ==
    /\ CrcComputed
    /\ cap = 16
    /\ q.head = 13
    /\ Len(q.xs) = 9
    /\ q.xs[1] = 37
    /\ q_call.msg_len = 6
    /\ q_call.status = "Ok"
    /\ Len(as_slices(q, cap)[1]) = 3

-----------------------------------------------------------------------------
(* Byte stuffer: the vector and the ring buffer *)

\* both variants have made the call op on the same message
BothCalled(op) ==
    /\ q_call.op = op
    /\ vec_call.op = op

\* C38: for every message of 1..capacity-2 bytes the Vec<u8> variant and
\* the ring-buffer variant agree: cobs_encode leaves the same bytes and
\* returns the same length, and cobs_decode applied to these bytes returns
\* the same result and leaves the same content.
C38_VariantsAgree ==
    (/\ Len(q_orig.xs) \in 1..(cap - 2)
     /\ BothCalled("cobs_encode") \/ BothCalled("cobs_decode"))
    => /\ vec = q.xs
       /\ vec_call = q_call

\* a message of 126 bytes without a zero was encoded and decoded by both
\* variants, the ring buffer's content wrapping
C38_Witness ==
    /\ BothCalled("cobs_decode")
    /\ cap = 128
    /\ q.head = 3
    /\ Len(q_orig.xs) = 126
    /\ q_orig.xs[1] = 255
    /\ vec_call.status = "Ok"
    /\ vec_call.ret = 126
    /\ vec = q_orig.xs \o <<0>>

-----------------------------------------------------------------------------
(* Byte stuffer on a slice *)

\* the positions of the slice that hold an offset after the encoding: the
\* first byte and every zero of the message
RedoLinks(buf) == {1} \cup {i \in 2..Len(buf) : buf[i] = 0}

\* the offset the encoding puts at position i: the distance to the next
\* zero, 0xFF at the last one
RedoOffset(buf, i) ==
    LET j == NextZero(buf, i)
    IN  IF j = Len(buf) + 1 THEN 255 ELSE j - i

\* C39: for every slice of 1..255 bytes whose first byte is the place of
\* the overhead byte, cobs_encode of cobs_redo.rs leaves no zero byte:
\* the first byte and every zero hold the distance to the next zero, the
\* last of them holds 0xFF, and the other bytes are kept; cobs_decode
\* applied to the result restores every byte after the first.
C39_SliceEncodeDecode ==
    Len(vec_orig) \in 1..255
    => /\ vec_call.op = "redo_encode"
          => /\ vec_call.status = "Ok"
             /\ Len(vec) = Len(vec_orig)
             /\ \A i \in 1..Len(vec) :
                    /\ vec[i] # 0
                    /\ vec[i] = IF i \in RedoLinks(vec_orig)
                                THEN RedoOffset(vec_orig, i)
                                ELSE vec_orig[i]
       /\ vec_call.op = "redo_decode"
          => /\ Len(vec) = Len(vec_orig)
             /\ \A i \in 2..Len(vec) : vec[i] = vec_orig[i]

\* a slice of 255 bytes with a zero at both ends of the message was
\* encoded and decoded
C39_Witness ==
    /\ vec_call.op = "redo_decode"
    /\ Len(vec_orig) = 255
    /\ vec_orig[1] = 170
    /\ vec_orig[2] = 0
    /\ vec_orig[255] = 0
    /\ vec_orig[3] = 1
    /\ vec[255] = 0
    /\ vec[1] = 0

====
